---- MODULE Spec2Model ----
(***************************************************************************)
(* Two-stage screening engine of rmc_app: Safety Gate threshold sweep,     *)
(* triage (gate then ranker), and the screening metrics.                   *)
(*                                                                         *)
(* Conventions                                                             *)
(*  - probabilities and thresholds are integers in units of 0.005, so the  *)
(*    sweep grid np.arange(0.01, 0.50, 0.005) is 2..99;                    *)
(*  - a float ratio a/b is the pair <<a, b>> with b > 0 (compared by       *)
(*    cross-multiplication); the float NaN is the record NaN;              *)
(*  - numpy positions are 0-based, sequences here are 1-based: pool        *)
(*    position i here is numpy index i-1 (order is preserved).             *)
(***************************************************************************)
EXTENDS Integers, Sequences, FiniteSets, TLC

VARIABLES
    pc,              \* position of the run
    pool,            \* candidate pool: per candidate p_low, ranker score, true score
    gate_threshold,  \* triage_applicants(gate_threshold)
    n_select,        \* triage_applicants(n_select)
    predictions,     \* dict returned by triage_applicants / built by train_regression_only
    metrics,         \* outcome of evaluate_two_stage
    standalone,      \* results of contamination_rate() / precision_at_k()
    call,            \* arguments and local k of the last evaluation call
    log,             \* records emitted on the module logger
    holdout,         \* threshold-holdout split: bag of (calibrated p_low, is_low)
    gate_result,     \* dict returned by train_safety_gate
    all_metrics,     \* bootstrap_evaluate: metrics of the resamples evaluated so far
    boot_skipped,    \* bootstrap_evaluate: resamples left by `continue` so far
    boot_result,     \* dict returned by bootstrap_evaluate
    df,              \* audit_gate_fairness: the protected-attribute columns of df
    audit_df,        \* rows of the frame returned by audit_gate_fairness
    y_train_score,   \* train_safety_gate / train_quality_ranker: training scores by row
    rows_given,      \* training rows handed to each fitting step of train_safety_gate
    ranker_result,   \* dict returned by train_quality_ranker
    run,             \* run_pipeline_task: the PipelineRun row
    upload_session,  \* run_pipeline_task: the UploadSession row of the run
    task,            \* run_pipeline_task: callbacks done, exception caught, value returned
    audit_log,       \* run_pipeline_task: actions written by log_action, in order
    model_files,     \* MODELS_DIR: bytes of each model pickle and text of its .sha256 file
    model_results,   \* DataStore.model_results: object loaded per configuration
    deserialized,    \* pickles deserialized by the last loading operation
    load_result,     \* outcome of the last direct call of load_verified_pickle
    saved,           \* object last given to save_verified_pickle, per model file
    session,         \* ingest endpoints: the UploadSession row addressed by session_id
    pipeline_runs,   \* ingest endpoints: the PipelineRun rows of the session, in order of creation
    row_lock,        \* the request holding SELECT ... FOR UPDATE on the session row
    response,        \* the HTTP response of the last ingest request answered
    pipe,            \* FeaturePipeline: the attributes of the pipeline object
    feature_call,    \* FeaturePipeline: method, outcome and _transform_impl calls of the last call
    review_predictions,\* review: tier of each applicant in store.get_predictions()
    review_decisions,\* review: the rows of the table review_decisions in the active cycle
    review_audit,    \* review: the audit_log rows written by log_action, in order
    review_requests, \* review: per reviewer, the submit_decision request in progress
    progress         \* review: dict returned by the last review_progress request

vars == <<pc, pool, gate_threshold, n_select, predictions, metrics, standalone,
          call, log, holdout, gate_result, all_metrics, boot_skipped, boot_result,
          df, audit_df, y_train_score, rows_given, ranker_result,
          run, upload_session, task, audit_log,
          model_files, model_results, deserialized, load_result, saved,
          session, pipeline_runs, row_lock, response,
          pipe, feature_call,
          review_predictions, review_decisions, review_audit, review_requests, progress>>

screenVars == <<pool, gate_threshold, n_select, predictions, metrics, standalone, call>>
gateVars == <<holdout, gate_result>>
bootVars == <<all_metrics, boot_skipped, boot_result>>

(* what the triage and metric steps leave alone, what the gate sweep leaves alone *)
auditVars == <<df, audit_df>>
trainVars == <<y_train_score, rows_given, ranker_result>>
taskVars == <<run, upload_session, task, audit_log>>
storeVars == <<model_files, model_results, deserialized, load_result, saved>>
ingestVars == <<session, pipeline_runs, row_lock, response>>
featureVars == <<pipe, feature_call>>
reviewVars == <<review_predictions, review_decisions, review_audit, review_requests, progress>>
beyondScreen == <<gateVars, bootVars, auditVars, trainVars, taskVars, storeVars, ingestVars, featureVars, reviewVars>>
beyondGate == <<screenVars, bootVars, auditVars, trainVars, taskVars, storeVars, ingestVars, featureVars, reviewVars>>
beyondBoot == <<screenVars, log, gateVars, auditVars, trainVars, taskVars, storeVars, ingestVars, featureVars, reviewVars>>
beyondAudit == <<screenVars, gateVars, bootVars, trainVars, taskVars, storeVars, ingestVars, featureVars, reviewVars>>
beyondTrain == <<screenVars, bootVars, auditVars, taskVars, storeVars, ingestVars, featureVars, reviewVars>>
beyondTask == <<screenVars, gateVars, bootVars, auditVars, trainVars, storeVars, ingestVars, featureVars, reviewVars>>
beyondStore == <<screenVars, gateVars, bootVars, auditVars, trainVars, taskVars, ingestVars, featureVars, reviewVars>>
beyondIngest == <<screenVars, gateVars, bootVars, auditVars, trainVars, taskVars, storeVars, featureVars, reviewVars>>
beyondFeature == <<screenVars, gateVars, bootVars, auditVars, trainVars, taskVars, storeVars, ingestVars, reviewVars>>
beyondReview == <<screenVars, gateVars, bootVars, auditVars, trainVars, taskVars, storeVars, ingestVars, featureVars>>

-----------------------------------------------------------------------------
(* Program constants (pipeline/config.py) *)

LOW_SCORE_THRESHOLD == 15
PRODUCTION_POOL_SIZE == 10000
PRODUCTION_K == 4000
GATE_RECALL_TARGET_PCT == 95

(* np.arange(0.01, 0.50, 0.005) in units of 0.005: 0.01, 0.015, ..., 0.495 *)
GRID_FIRST == 2
GRID_LAST == 99

(* Bounds of the model *)

MaxPool == 3
MaxK == 3
MaxBootPool == 2
MaxBoot == 2
MaxColumns == 3
MaxRows == 10
BigCount == 19

(* Input domains *)

PLowVals == {10, 20}
ThresholdVals == {20, 30}
RankVals == {1, 2}
TrueScoreVals == {15, 16}
ProductionPairs == {<<PRODUCTION_K, PRODUCTION_POOL_SIZE>>, <<1, 2>>}
PGateVals == {1, 60, 90}
CountVals == {0, 1, BigCount}

-----------------------------------------------------------------------------
(* Generic helpers *)

Min(a, b) == IF a <= b THEN a ELSE b
Max(a, b) == IF a >= b THEN a ELSE b

Reverse(s) == [i \in 1..Len(s) |-> s[Len(s) + 1 - i]]

Take(s, n) == SubSeq(s, 1, Min(n, Len(s)))

Range(s) == {s[i] : i \in 1..Len(s)}

NoDup(s) == \A i, j \in 1..Len(s) : i # j => s[i] # s[j]

NaN == [nan |-> TRUE]
IsNaN(x) == x = NaN

Ratio(a, b) == <<a, b>>
RatEq(x, y) == x[1] * y[2] = y[1] * x[2]
RatLeq(x, y) == x[1] * y[2] <= y[1] * x[2]
RatAdd(x, y) == <<x[1] * y[2] + y[1] * x[2], x[2] * y[2]>>
RatSub(x, y) == <<x[1] * y[2] - y[1] * x[2], x[2] * y[2]>>
RatMul(x, y) == <<x[1] * y[1], x[2] * y[2]>>

RECURSIVE Gcd(_, _)
Gcd(a, b) == IF b = 0 THEN a ELSE Gcd(b, a % b)

(* the same ratio in lowest terms *)
RatNorm(x) ==
    LET g == Gcd(IF x[1] < 0 THEN -x[1] ELSE x[1], x[2])
    IN  <<x[1] \div g, x[2] \div g>>

RECURSIVE SumSeq(_)
SumSeq(s) == IF s = <<>> THEN 0 ELSE s[1] + SumSeq(Tail(s))

MinSeq(s) == CHOOSE m \in Range(s) : \A x \in Range(s) : m <= x

(* np.argsort(scores): a permutation of the positions that puts the scores  *)
(* in ascending order.  The default kind ("quicksort") is not stable, so    *)
(* the relative order of equal scores is any order the build produces.      *)
IsArgsort(perm, scores) ==
    /\ Len(perm) = Len(scores)
    /\ Range(perm) = 1..Len(scores)
    /\ \A i \in 1..(Len(perm) - 1) : scores[perm[i]] <= scores[perm[i + 1]]

Argsorts(scores) ==
    {perm \in [1..Len(scores) -> 1..Len(scores)] : IsArgsort(perm, scores)}

-----------------------------------------------------------------------------
(* triage_applicants *)

PassedGate(i) == pool[i].p_low < gate_threshold

(* np.where(passed_gate)[0]: the passing positions, ascending *)
RECURSIVE PassedFrom(_)
PassedFrom(i) ==
    IF i > Len(pool) THEN <<>>
    ELSE (IF PassedGate(i) THEN <<i>> ELSE <<>>) \o PassedFrom(i + 1)

PassedIndices == PassedFrom(1)

(* mutant: the quota is not applied *)
NTakeAll(k, n) == n

NTake(k, n) == Min(k, n)

(* mutant: the ascending argsort is not reversed *)
RankingAscending(perm, n_take) == Take(perm, n_take)

(* np.argsort(predicted_scores)[::-1][:n_take] *)
Ranking(perm, n_take) == Take(Reverse(perm), n_take)

(* mutant: the pass rate is reported instead of the rejection rate *)
GateRejectionRatePassed(n_passed, n) == Ratio(n_passed, n)

(* 1 - (n_passed / len(X_pool)) *)
GateRejectionRate(n_passed, n) == Ratio(n - n_passed, n)

EmptyTriage ==
    [selected_indices |-> <<>>, predicted_scores |-> <<>>, p_low |-> <<>>,
     gate_rejection_rate |-> Ratio(1, 1), n_passed_gate |-> 0]

TriageReturn(perm) ==
    LET passed_indices == PassedIndices
        n_passed == Len(passed_indices)
        predicted_scores == [j \in 1..n_passed |-> pool[passed_indices[j]].pred]
        ranking == Ranking(perm, NTake(n_select, n_passed))
    IN  [selected_indices |-> [j \in 1..Len(ranking) |-> passed_indices[ranking[j]]],
         predicted_scores |-> [j \in 1..Len(ranking) |-> predicted_scores[ranking[j]]],
         p_low |-> [j \in 1..Len(ranking) |-> pool[passed_indices[ranking[j]]].p_low],
         gate_rejection_rate |-> GateRejectionRate(n_passed, Len(pool)),
         n_passed_gate |-> n_passed]

TriageLog(n_passed) ==
    (IF n_passed < n_select THEN {"WARNING only some passed gate"} ELSE {})
    \cup (IF n_passed = 0 THEN {"ERROR no candidates passed the gate"} ELSE {})

TriageApplicants ==
    /\ pc = "start"
    /\ LET passed_indices == PassedIndices
           n_passed == Len(passed_indices)
           predicted_scores == [j \in 1..n_passed |-> pool[passed_indices[j]].pred]
       IN  /\ log' = log \cup TriageLog(n_passed)
           /\ IF n_passed = 0
              THEN predictions' = EmptyTriage
              ELSE \E perm \in Argsorts(predicted_scores) :
                      predictions' = TriageReturn(perm)
    /\ pc' = "triaged"
    /\ UNCHANGED <<pool, gate_threshold, n_select, metrics, standalone, call>>
    /\ UNCHANGED beyondScreen

-----------------------------------------------------------------------------
(* Screening metrics (pipeline/model_evaluation.py) *)

YTrue == [i \in 1..Len(pool) |-> pool[i].y]

(* y_true_score[selected] *)
Gather(y, selected) == [j \in 1..Len(selected) |-> y[selected[j]]]

CountLow(scores, low_threshold) ==
    Cardinality({j \in 1..Len(scores) : scores[j] <= low_threshold})

(* mutant: a score equal to the threshold counts as high *)
CountHighInclusive(scores, low_threshold) ==
    Cardinality({j \in 1..Len(scores) : scores[j] >= low_threshold})

CountHigh(scores, low_threshold) ==
    Cardinality({j \in 1..Len(scores) : scores[j] > low_threshold})

(* ndarray.mean() of a 0/1 array holding `count` ones among n entries; the  *)
(* mean of an empty array is NaN (numpy warns, it does not raise)           *)
MeanOfMask(count, n) == IF n = 0 THEN NaN ELSE Ratio(count, n)

ContaminationRate(y, selected, low_threshold) ==
    LET selected_scores == Gather(y, selected)
    IN  IF Len(selected_scores) = 0 THEN Ratio(0, 1)
        ELSE MeanOfMask(CountLow(selected_scores, low_threshold), Len(selected_scores))

PrecisionAtK(y, selected, low_threshold) ==
    LET selected_scores == Gather(y, selected)
    IN  IF Len(selected_scores) = 0 THEN Ratio(0, 1)
        ELSE MeanOfMask(CountHigh(selected_scores, low_threshold), Len(selected_scores))

(* mutant: the quotient is not clamped to at least 1 *)
ProportionalKUnclamped(production_k, n_test, production_pool_size) ==
    (production_k * n_test) \div production_pool_size

(* max(1, int(production_k * n_test / production_pool_size)) *)
ProportionalK(production_k, n_test, production_pool_size) ==
    Max(1, (production_k * n_test) \div production_pool_size)

(* np.percentile(scores, 10), linear interpolation, as a ratio over 10 *)
Percentile10(scores) ==
    LET n == Len(scores)
        perm == CHOOSE p \in Argsorts(scores) : TRUE
        sorted == [i \in 1..n |-> scores[perm[i]]]
        lo == ((n - 1) \div 10) + 1
        frac10 == (n - 1) % 10
    IN  IF frac10 = 0 THEN Ratio(10 * sorted[lo], 10)
        ELSE Ratio(10 * sorted[lo] + frac10 * (sorted[lo + 1] - sorted[lo]), 10)

(* evaluate_two_stage with k = None.  On an empty selection the means are   *)
(* NaN and ndarray.min() of the empty array raises ValueError, so the call  *)
(* returns no metrics.                                                      *)
EvaluateTwoStage(y, preds, low_threshold, production_pool_size, production_k) ==
    LET n_test == Len(y)
        k == ProportionalK(production_k, n_test, production_pool_size)
        selected == Take(preds.selected_indices, k)
        scores == Gather(y, selected)
    IN  IF Len(scores) = 0
        THEN [outcome |-> "ValueError"]
        ELSE [outcome |-> "returned",
              k |-> k,
              n_test |-> n_test,
              contamination_rate |-> MeanOfMask(CountLow(scores, low_threshold), Len(scores)),
              n_low_in_selected |-> CountLow(scores, low_threshold),
              precision_at_k |-> MeanOfMask(CountHigh(scores, low_threshold), Len(scores)),
              mean_score_selected |-> Ratio(SumSeq(scores), Len(scores)),
              min_score_selected |-> MinSeq(scores),
              p10_score_selected |-> Percentile10(scores),
              coverage |-> Ratio(CountHigh(scores, low_threshold),
                                 Max(1, CountHigh(y, low_threshold))),
              gate_rejection_rate |-> preds.gate_rejection_rate,
              n_passed_gate |-> preds.n_passed_gate]

(* evaluate_two_stage(y_test_score, predictions, production_pool_size=...,  *)
(* production_k=...) on a triage result                                     *)
Evaluate ==
    /\ pc = "triaged"
    /\ \E pair \in ProductionPairs :
          LET m == EvaluateTwoStage(YTrue, predictions, LOW_SCORE_THRESHOLD,
                                    pair[2], pair[1])
          IN  /\ metrics' = m
              /\ call' = [production_k |-> pair[1], production_pool_size |-> pair[2],
                          k |-> ProportionalK(pair[1], Len(YTrue), pair[2])]
    /\ pc' = "evaluated"
    /\ UNCHANGED <<pool, gate_threshold, n_select, predictions, standalone, log>>
    /\ UNCHANGED beyondScreen

(* contamination_rate() and precision_at_k() applied to the selection *)
StandaloneMetrics ==
    /\ pc = "triaged"
    /\ standalone.outcome = "unset"
    /\ standalone' =
          [outcome |-> "returned",
           contamination_rate |->
               ContaminationRate(YTrue, predictions.selected_indices, LOW_SCORE_THRESHOLD),
           precision_at_k |->
               PrecisionAtK(YTrue, predictions.selected_indices, LOW_SCORE_THRESHOLD)]
    /\ UNCHANGED <<pc, pool, gate_threshold, n_select, predictions, metrics, call, log>>
    /\ UNCHANGED beyondScreen

(* train_regression_only from the regressor's test predictions on: rank by  *)
(* predicted score, take the proportional top K, evaluate                   *)
RegressionOnly ==
    /\ pc = "start"
    /\ LET n_test == Len(pool)
           y_pred == [i \in 1..n_test |-> pool[i].pred]
           k == ProportionalK(PRODUCTION_K, n_test, PRODUCTION_POOL_SIZE)
       IN  \E perm \in Argsorts(y_pred) :
             LET selected == Take(Reverse(perm), k)
                 preds == [selected_indices |-> selected,
                           predicted_scores |-> Gather(y_pred, selected),
                           gate_rejection_rate |-> Ratio(0, 1),
                           n_passed_gate |-> n_test]
                 m == EvaluateTwoStage(YTrue, preds, LOW_SCORE_THRESHOLD,
                                       PRODUCTION_POOL_SIZE, PRODUCTION_K)
             IN  /\ predictions' = preds
                 /\ metrics' = m
                 /\ call' = [production_k |-> PRODUCTION_K,
                             production_pool_size |-> PRODUCTION_POOL_SIZE, k |-> k]
    /\ pc' = "regression_done"
    /\ UNCHANGED <<pool, gate_threshold, n_select, standalone, log>>
    /\ UNCHANGED beyondScreen

-----------------------------------------------------------------------------
(* train_safety_gate: threshold sweep on the threshold-holdout split        *)
(* (pipeline/model_training.py).  The holdout is the bag of                 *)
(* (calibrated p_low, is_low) pairs: holdout[<<p, y>>] samples have         *)
(* probability p and label y; recall_score and confusion_matrix depend on   *)
(* nothing else.                                                            *)

HoldoutCells == PGateVals \X {0, 1}

RECURSIVE BagCount(_)
BagCount(cells) ==
    IF cells = {} THEN 0
    ELSE LET c == CHOOSE x \in cells : TRUE
         IN  holdout[c] + BagCount(cells \ {c})

(* y_pred = (p_low_thresh >= t).astype(int) *)
YPred(p, t) == IF p >= t THEN 1 ELSE 0

(* confusion_matrix(y_true, y_pred, labels=[0, 1]): cm[y_true][y_pred] *)
ConfusionMatrix(t) ==
    [yt \in {0, 1} |-> [yp \in {0, 1} |->
        BagCount({c \in HoldoutCells : c[2] = yt /\ YPred(c[1], t) = yp})]]

(* np.sum(cm * [[0, -1], [-10, +1]]) *)
ScreeningGain(t) ==
    LET cm == ConfusionMatrix(t)
    IN  cm[0][0] * 0 + cm[0][1] * (-1) + cm[1][0] * (-10) + cm[1][1] * 1

(* recall_score(y_thresh, y_pred, zero_division=0) *)
RecallScore(t) ==
    LET cm == ConfusionMatrix(t)
    IN  IF cm[1][0] + cm[1][1] = 0 THEN Ratio(0, 1)
        ELSE Ratio(cm[1][1], cm[1][0] + cm[1][1])

(* recall >= GATE_RECALL_TARGET *)
MeetsRecallTarget(recall) == RatLeq(Ratio(GATE_RECALL_TARGET_PCT, 100), recall)

(* best_threshold = None, best_gain = float("-inf"), best_recall = 0.0 *)
SweepStart == [threshold |-> 0, found |-> FALSE, gain |-> 0, recall |-> Ratio(0, 1)]

(* mutant: every threshold meeting the recall target replaces the best one *)
AcceptsAnyQualifying(recall, gain, best) == MeetsRecallTarget(recall)

(* recall >= GATE_RECALL_TARGET and gain > best_gain; best_gain is -inf     *)
(* until a threshold has been accepted                                      *)
Accepts(recall, gain, best) ==
    MeetsRecallTarget(recall) /\ (~best.found \/ gain > best.gain)

(* one iteration of the loop body at threshold t *)
SweepStep(t, best) ==
    LET recall == RecallScore(t)
        gain == ScreeningGain(t)
    IN  IF Accepts(recall, gain, best)
        THEN [threshold |-> t, found |-> TRUE, gain |-> gain, recall |-> recall]
        ELSE best

(* for t in np.arange(0.01, 0.50, 0.005): the iterations lo..hi in         *)
(* ascending order, started from best.  The range is split in halves only  *)
(* to keep the evaluation shallow, and the state after the first half is   *)
(* bound through a singleton set so that the second half starts from a     *)
(* value; the order of the iterations is the loop's.                       *)
RECURSIVE Sweep(_, _, _)
Sweep(lo, hi, best) ==
    IF lo > hi THEN best
    ELSE IF lo = hi THEN SweepStep(lo, best)
    ELSE CHOOSE last \in {Sweep(((lo + hi) \div 2) + 1, hi, half) :
                              half \in {Sweep(lo, (lo + hi) \div 2, best)}} : TRUE

(* mutant: the fallback takes the largest tested threshold *)
FallbackLargest ==
    [threshold |-> GRID_LAST, found |-> TRUE,
     gain |-> ScreeningGain(GRID_LAST), recall |-> RecallScore(GRID_LAST)]

(* the fallback taken when best_threshold is None *)
Fallback ==
    [threshold |-> GRID_FIRST, found |-> TRUE,
     gain |-> ScreeningGain(GRID_FIRST), recall |-> RecallScore(GRID_FIRST)]

TrainSafetyGate ==
    /\ pc = "gate_start"
    /\ LET swept == Sweep(GRID_FIRST, GRID_LAST, SweepStart)
           best == IF swept.found THEN swept ELSE Fallback
       IN  /\ gate_result' = [outcome |-> "returned",
                              threshold |-> best.threshold,
                              threshold_recall |-> best.recall,
                              threshold_gain |-> best.gain]
           /\ log' = log \cup (IF swept.found THEN {}
                               ELSE {"WARNING no threshold achieved target recall"})
                         \cup {"INFO gate threshold"}
    /\ pc' = "gate_done"
    /\ UNCHANGED holdout
    /\ UNCHANGED beyondGate

-----------------------------------------------------------------------------
(* bootstrap_evaluate (pipeline/model_evaluation.py).  The resample indices  *)
(* rng.choice(n, size=n, replace=True) are any n positions of the test set.  *)

n_bootstrap == MaxBoot

(* (1 - ci) / 2 * 100 and (1 + ci) / 2 * 100 for ci = 0.95, in tenths of a   *)
(* percent                                                                   *)
LO_PCT == 25
HI_PCT == 975

Resamples(n) == [1..n -> 1..n]

(* [i for i, orig in enumerate(idx) if orig in set(selected_indices)] *)
RECURSIVE RemapFrom(_, _, _)
RemapFrom(idx, chosen, i) ==
    IF i > Len(idx) THEN <<>>
    ELSE (IF idx[i] \in chosen THEN <<i>> ELSE <<>>) \o RemapFrom(idx, chosen, i + 1)

(* set(predictions["selected_indices"]) *)
BootSelectedSet == Range(predictions.selected_indices)

(* mutant: a resample with an empty remapped selection is evaluated *)
NeverDegenerate(boot_selected) == FALSE

(* len(boot_predictions["selected_indices"]) == 0 *)
IsDegenerate(boot_selected) == Len(boot_selected) = 0

(* the metric keys whose values are Python ints; the others are floats *)
IntKeys == {"k", "n_test", "n_low_in_selected", "min_score_selected", "n_passed_gate"}

MetricKeys(m) == DOMAIN m \ {"outcome"}

AsRatio(key, v) == IF key \in IntKeys THEN Ratio(v, 1) ELSE v

(* vals = [m[key] for m in all_metrics if isinstance(m[key], (int, float))] *)
ValsOf(ms, key) == [j \in 1..Len(ms) |-> AsRatio(key, ms[j][key])]

RECURSIVE RatSum(_)
RatSum(vals) ==
    IF vals = <<>> THEN Ratio(0, 1) ELSE RatNorm(RatAdd(vals[1], RatSum(Tail(vals))))

(* np.mean(vals) *)
MeanOfVals(vals) == RatNorm(Ratio(RatSum(vals)[1], RatSum(vals)[2] * Len(vals)))

SortedVals(vals) ==
    LET n == Len(vals)
        perm == CHOOSE p \in [1..n -> 1..n] :
                    /\ \A i, j \in 1..n : i # j => p[i] # p[j]
                    /\ \A i, j \in 1..n : i < j => RatLeq(vals[p[i]], vals[p[j]])
    IN  [i \in 1..n |-> vals[perm[i]]]

(* np.percentile(vals, pct / 10), linear interpolation *)
PercentileOfVals(vals, pct) ==
    LET sorted == SortedVals(vals)
        h == pct * (Len(vals) - 1)
        lo == (h \div 1000) + 1
        frac == h % 1000
    IN  IF frac = 0 THEN RatNorm(sorted[lo])
        ELSE RatNorm(RatAdd(sorted[lo],
                            RatNorm(RatMul(Ratio(frac, 1000),
                                           RatNorm(RatSub(sorted[lo + 1], sorted[lo]))))))

(* the dict built after the loop; {} when no resample was evaluated *)
BootstrapSummary(ms) ==
    IF ms = <<>> THEN [outcome |-> "returned", intervals |-> <<>>]
    ELSE [outcome |-> "returned",
          intervals |-> [key \in MetricKeys(ms[1]) |->
                            <<MeanOfVals(ValsOf(ms, key)),
                              PercentileOfVals(ValsOf(ms, key), LO_PCT),
                              PercentileOfVals(ValsOf(ms, key), HI_PCT)>>]]

(* one iteration of `for _ in range(n_bootstrap)`, with the keyword          *)
(* arguments of the preceding evaluate_two_stage call                        *)
BootstrapResample ==
    /\ pc \in {"evaluated", "resampling"}
    /\ metrics.outcome = "returned"
    /\ Len(all_metrics) + boot_skipped < n_bootstrap
    /\ \E idx \in Resamples(Len(YTrue)) :
          LET boot_selected == RemapFrom(idx, BootSelectedSet, 1)
              boot_predictions ==
                  [selected_indices |-> boot_selected,
                   gate_rejection_rate |-> predictions.gate_rejection_rate,
                   n_passed_gate |-> predictions.n_passed_gate]
              m == EvaluateTwoStage(Gather(YTrue, idx), boot_predictions,
                                    LOW_SCORE_THRESHOLD, call.production_pool_size,
                                    call.production_k)
          IN  IF IsDegenerate(boot_selected)
              THEN /\ boot_skipped' = boot_skipped + 1
                   /\ pc' = "resampling"
                   /\ UNCHANGED <<all_metrics, boot_result>>
              ELSE IF m.outcome = "ValueError"
              THEN /\ boot_result' = m
                   /\ pc' = "bootstrapped"
                   /\ UNCHANGED <<all_metrics, boot_skipped>>
              ELSE /\ all_metrics' = Append(all_metrics, m)
                   /\ pc' = "resampling"
                   /\ UNCHANGED <<boot_skipped, boot_result>>
    /\ UNCHANGED beyondBoot

(* the end of bootstrap_evaluate, after the last iteration *)
BootstrapReturn ==
    /\ pc = "resampling"
    /\ Len(all_metrics) + boot_skipped = n_bootstrap
    /\ boot_result' = BootstrapSummary(all_metrics)
    /\ pc' = "bootstrapped"
    /\ UNCHANGED <<all_metrics, boot_skipped>>
    /\ UNCHANGED beyondBoot

-----------------------------------------------------------------------------
(* audit_gate_fairness (pipeline/fairness_audit.py).  A column of df is     *)
(* absent, or gives for every group value occurring in it the number of its *)
(* rows and how many of them the gate rejected (p_low >= gate_threshold);   *)
(* the remaining rows of the frame are NaN in that column.  The Age column  *)
(* is taken after pd.cut, its groups being the age bands.                   *)

DEMOGRAPHICS_FOR_FAIRNESS_ONLY == {"Gender", "Age", "Race", "Citizenship"}

Absent == [present |-> FALSE]

GroupNames == {"A", "B"}
GroupStats == {[n |-> 1, rejected |-> 0], [n |-> 4, rejected |-> 3],
               [n |-> 5, rejected |-> 4], [n |-> 5, rejected |-> 5]}

Columns ==
    {Absent} \cup {[present |-> TRUE, by_group |-> g] :
                      g \in UNION {[gs -> GroupStats] : gs \in SUBSET GroupNames}}

(* groups = sensitive.dropna().unique() *)
GroupsOf(attr) == DOMAIN df[attr].by_group

(* float(group_rejected.mean()) *)
RejectionRate(attr, group) ==
    Ratio(df[attr].by_group[group].rejected, df[attr].by_group[group].n)

MinRejection(attr) ==
    CHOOSE r \in {RejectionRate(attr, g) : g \in GroupsOf(attr)} :
        \A g \in GroupsOf(attr) : RatLeq(r, RejectionRate(attr, g))

MaxRejection(attr) ==
    CHOOSE r \in {RejectionRate(attr, g) : g \in GroupsOf(attr)} :
        \A g \in GroupsOf(attr) : RatLeq(RejectionRate(attr, g), r)

(* mutant: no group rejected at all gives ratio 0 *)
DiRatioZeroWhenNoRejection(attr) ==
    IF MaxRejection(attr)[1] > 0
    THEN RatNorm(Ratio(MinRejection(attr)[1] * MaxRejection(attr)[2],
                       MinRejection(attr)[2] * MaxRejection(attr)[1]))
    ELSE Ratio(0, 1)

(* min_rejection / max_rejection if max_rejection > 0 else 1.0 *)
DiRatio(attr) ==
    IF MaxRejection(attr)[1] > 0
    THEN RatNorm(Ratio(MinRejection(attr)[1] * MaxRejection(attr)[2],
                       MinRejection(attr)[2] * MaxRejection(attr)[1]))
    ELSE Ratio(1, 1)

(* di_ratio >= 0.8 *)
Passes80PctRule(di_ratio) == RatLeq(Ratio(4, 5), di_ratio)

(* the attributes whose loop body reaches the per-group rows *)
AuditedAttrs ==
    {attr \in DEMOGRAPHICS_FOR_FAIRNESS_ONLY :
        df[attr].present /\ Cardinality(GroupsOf(attr)) >= 2}

AuditRows ==
    UNION {{[attribute |-> attr,
             group |-> group,
             n |-> df[attr].by_group[group].n,
             rejection_rate |-> RejectionRate(attr, group),
             rejection_di_ratio |-> DiRatio(attr),
             passes_80pct_rule |-> Passes80PctRule(DiRatio(attr))] :
                group \in GroupsOf(attr)} : attr \in AuditedAttrs}

(* the records the call puts on the module logger *)
AuditLog ==
    {<<"WARNING", "not found in data", attr>> :
        attr \in {a \in DEMOGRAPHICS_FOR_FAIRNESS_ONLY : ~df[a].present}}
    \cup (IF AuditedAttrs = {} THEN {}
          ELSE {<<"INFO", "saved gate fairness report", "">>})
    \cup {<<"INFO", IF Passes80PctRule(DiRatio(attr)) THEN "PASS" ELSE "FAIL", attr>> :
             attr \in AuditedAttrs}

AuditGateFairness ==
    /\ pc = "audit_start"
    /\ audit_df' = AuditRows
    /\ log' = log \cup AuditLog
    /\ pc' = "audited"
    /\ UNCHANGED df
    /\ UNCHANGED beyondAudit

-----------------------------------------------------------------------------
(* train_safety_gate before the sweep, and train_quality_ranker              *)
(* (pipeline/model_training.py).  Rows are the positions of y_train_score.  *)

(* y_binary = (y_train_score <= LOW_SCORE_THRESHOLD).astype(int) *)
YBinary(i) == IF y_train_score[i] <= LOW_SCORE_THRESHOLD THEN 1 ELSE 0

ClassCount(rows, c) == Cardinality({i \in rows : YBinary(i) = c})

BothClasses(rows) == ClassCount(rows, 0) > 0 /\ ClassCount(rows, 1) > 0

(* test_size=0.20 and test_size=0.25 *)
TEST_SIZE_HOLDOUT == <<1, 5>>
TEST_SIZE_CALIB == <<1, 4>>

(* sklearn's stratified allocation of n_draws rows to the two classes: the  *)
(* floor of each proportional share, the row left over going to the class   *)
(* with the larger remainder, to either class on a tie                      *)
ApproximateMode(rows, n_draws) ==
    LET total == Cardinality(rows)
        floored == [c \in {0, 1} |-> (ClassCount(rows, c) * n_draws) \div total]
        remainder == [c \in {0, 1} |-> (ClassCount(rows, c) * n_draws) % total]
        need_to_add == n_draws - floored[0] - floored[1]
    IN  IF need_to_add = 0 THEN {floored}
        ELSE {[floored EXCEPT ![c] = @ + 1] :
                 c \in {d \in {0, 1} : remainder[d] >= remainder[1 - d]}}

(* t takes, of the rows with equal label, the first ones *)
TakesFirstOfEach(t, rows) ==
    \A i \in t : \A j \in rows \ t : YBinary(i) = YBinary(j) => i < j

(* train_test_split(rows, test_size=..., stratify=y_binary): the (train,    *)
(* test) pairs the shuffle can produce, or the ValueError of a split that   *)
(* cannot be stratified.  Rows with the same label are interchangeable, so  *)
(* of the pairs that differ only in which of them are taken, one is kept.   *)
TrainTestSplit(rows, test_size) ==
    LET n == Cardinality(rows)
        n_test == (n * test_size[1] + test_size[2] - 1) \div test_size[2]
        n_train == n - n_test
        classes == {c \in {0, 1} : ClassCount(rows, c) > 0}
    IN  IF \/ n_train = 0
           \/ \E c \in classes : ClassCount(rows, c) < 2
           \/ n_train < Cardinality(classes)
           \/ n_test < Cardinality(classes)
        THEN [outcome |-> "ValueError"]
        ELSE [outcome |-> "returned",
              splits |-> {<<train, rows \ train>> :
                  train \in {t \in SUBSET rows :
                      /\ TakesFirstOfEach(t, rows)
                      /\ \E n_i \in ApproximateMode(rows, n_train) :
                            \A c \in {0, 1} : ClassCount(t, c) = n_i[c]}}]

(* mutant: the second split is taken from all the training rows *)
CalibSplitInputAll(all_rows, full) == all_rows

(* the rows the second split divides: X_full, what the first split kept *)
CalibSplitInput(all_rows, full) == full

(* the exception leaves train_safety_gate; `logged` was logged before it *)
GateRaises(logged) ==
    /\ gate_result' = [outcome |-> "ValueError"]
    /\ pc' = "train_failed"
    /\ log' = log \cup logged
    /\ UNCHANGED <<holdout, rows_given>>

(* train_safety_gate up to the calibrated probabilities of the holdout      *)
(* rows.  The classifier and the calibrator are library estimators: given   *)
(* rows of both classes they fit; given rows of one class only, whether     *)
(* they fit or raise depends on the library build.  p_low_thresh is         *)
(* whatever the calibrated gate predicts for the holdout rows.              *)
SplitFitCalibrate ==
    /\ pc = "train_start"
    /\ LET all_rows == 1..Len(y_train_score)
           first == TrainTestSplit(all_rows, TEST_SIZE_HOLDOUT)
       IN  IF first.outcome = "ValueError" THEN GateRaises({})
           ELSE \E s1 \in first.splits :
                  LET second == TrainTestSplit(CalibSplitInput(all_rows, s1[1]),
                                               TEST_SIZE_CALIB)
                  IN  IF second.outcome = "ValueError" THEN GateRaises({})
                      ELSE \E s2 \in second.splits :
                             \/ /\ ~BothClasses(s2[1]) \/ ~BothClasses(s2[2])
                                /\ GateRaises({"INFO gate split"})
                             \/ \E p_low_thresh \in [s1[2] -> PGateVals] :
                                   /\ rows_given' = [outcome |-> "returned",
                                                     gate_fit |-> s2[1],
                                                     gate_eval_set |-> s2[2],
                                                     calibration |-> s2[2],
                                                     threshold_sweep |-> s1[2]]
                                   /\ holdout' = [c \in HoldoutCells |->
                                         Cardinality({i \in s1[2] :
                                             p_low_thresh[i] = c[1] /\ YBinary(i) = c[2]})]
                                   /\ pc' = "gate_start"
                                   /\ log' = log \cup {"INFO gate split"}
                                   /\ UNCHANGED gate_result
    /\ UNCHANGED <<y_train_score, ranker_result>>
    /\ UNCHANGED beyondTrain

(* mutant: the ranker also trains on scores equal to the cutoff *)
HighMaskInclusive(threshold) ==
    {i \in 1..Len(y_train_score) : y_train_score[i] >= threshold}

(* high_mask = y_train_score > threshold *)
HighMask(threshold) ==
    {i \in 1..Len(y_train_score) : y_train_score[i] > threshold}

(* train_quality_ranker(X_train, y_train_score) with score_threshold=None;  *)
(* the regressor rejects a training matrix with no rows                     *)
TrainQualityRanker ==
    /\ pc = "gate_done"
    /\ ranker_result' =
          IF HighMask(LOW_SCORE_THRESHOLD) = {} THEN [outcome |-> "ValueError"]
          ELSE [outcome |-> "returned",
                rows |-> HighMask(LOW_SCORE_THRESHOLD),
                n_train |-> Cardinality(HighMask(LOW_SCORE_THRESHOLD)),
                score_threshold |-> LOW_SCORE_THRESHOLD]
    /\ pc' = "ranker_done"
    /\ log' = log \cup {"INFO ranker training set"}
    /\ UNCHANGED <<y_train_score, rows_given>>
    /\ UNCHANGED <<gateVars, beyondTrain>>

-----------------------------------------------------------------------------
(* run_pipeline_task (api/tasks/pipeline_task.py) around score_new_cycle     *)
(* (pipeline/score_pipeline.py), one step per database commit.               *)

None == "None"

(* callbacks in which the features step reports less than cleaning did *)
CallbacksFallingBack ==
    << <<"ingestion", 0>>, <<"ingestion", 10>>, <<"cleaning", 10>>, <<"cleaning", 40>>,
       <<"features", 30>>, <<"features", 60>>, <<"ml_scoring", 60>>, <<"ml_scoring", 80>>,
       <<"triage", 80>>, <<"triage", 100>> >>

(* the progress callbacks of score_new_cycle, in program order *)
Callbacks ==
    << <<"ingestion", 0>>, <<"ingestion", 10>>, <<"cleaning", 10>>, <<"cleaning", 40>>,
       <<"features", 40>>, <<"features", 60>>, <<"ml_scoring", 60>>, <<"ml_scoring", 80>>,
       <<"triage", 80>>, <<"triage", 100>> >>

(* what a pipeline step can raise: the exception class and whether its      *)
(* message contains "Amcas_ID"                                              *)
Exceptions ==
    [type : {"KeyError", "FileNotFoundError", "MemoryError", "ValueError"},
     mentions_amcas_id : BOOLEAN]

(* a manifest entry: whether it has a local_path and a detected_type *)
ManifestEntries == [local_path : BOOLEAN, detected_type : BOOLEAN]

(* data_dir is set from the first entry that has both *)
HasDataDir == \E meta \in upload_session.file_manifest : meta.local_path /\ meta.detected_type

(* mutant: every KeyError gets the AMCAS ID message *)
TranslateErrorAnyKeyError(exc, step) ==
    IF exc.type = "KeyError"
    THEN [text |-> "The Applicants file is missing the required 'AMCAS ID' column.",
          step |-> None]
    ELSE IF exc.type = "FileNotFoundError"
    THEN [text |-> "A required data file was not found.", step |-> None]
    ELSE IF exc.type = "MemoryError"
    THEN [text |-> "The uploaded files are too large to process. Please contact support.",
          step |-> None]
    ELSE [text |-> "Pipeline error during", step |-> step]

(* translate_error: the first entry of _ERROR_MAP whose class and pattern   *)
(* match, else "Pipeline error during {step}: ..."; `step` is the step the  *)
(* message names, None when it names none                                   *)
TranslateError(exc, step) ==
    IF exc.type = "KeyError" /\ exc.mentions_amcas_id
    THEN [text |-> "The Applicants file is missing the required 'AMCAS ID' column.",
          step |-> None]
    ELSE IF exc.type = "FileNotFoundError"
    THEN [text |-> "A required data file was not found.", step |-> None]
    ELSE IF exc.type = "MemoryError"
    THEN [text |-> "The uploaded files are too large to process. Please contact support.",
          step |-> None]
    ELSE [text |-> "Pipeline error during", step |-> step]

(* the except block: the run and its session are marked failed, the         *)
(* translated message is stored and audited; `executing` is the step that   *)
(* raised, None before the pipeline started                                 *)
TaskFails(exc, executing) ==
    LET step == IF run.current_step = None THEN "unknown" ELSE run.current_step
        friendly_msg == TranslateError(exc, step)
    IN  /\ run' = [run EXCEPT !.status = "failed",
                              !.error_log = exc.type,
                              !.result_summary = [error |-> friendly_msg]]
        /\ upload_session' = [upload_session EXCEPT !.status = "failed"]
        /\ audit_log' = Append(audit_log, "pipeline_failed")
        /\ task' = [task EXCEPT !.raised = exc, !.executing = executing,
                                !.returned = "error"]
        /\ log' = log \cup {"ERROR pipeline run failed"}
        /\ pc' = "task_returned"

(* look the run and its session up; mark them running / processing *)
MarkRunning ==
    /\ pc = "task_start"
    /\ IF ~run.exists \/ ~upload_session.exists
       THEN /\ task' = [task EXCEPT !.returned = "error"]
            /\ log' = log \cup {IF ~run.exists THEN "ERROR run not found"
                                ELSE "ERROR session not found"}
            /\ pc' = "task_returned"
            /\ UNCHANGED <<run, upload_session>>
       ELSE /\ run' = [run EXCEPT !.status = "running"]
            /\ upload_session' = [upload_session EXCEPT !.status = "processing"]
            /\ pc' = "marked_running"
            /\ UNCHANGED <<task, log>>
    /\ UNCHANGED audit_log
    /\ UNCHANGED beyondTask

(* build file_map; without a data_dir raise ValueError, else enter          *)
(* score_new_cycle up to its first callback                                 *)
StartPipeline ==
    /\ pc = "marked_running"
    /\ IF ~HasDataDir
       THEN TaskFails([type |-> "ValueError", mentions_amcas_id |-> FALSE], None)
       ELSE /\ run' = [run EXCEPT !.current_step = Callbacks[1][1],
                                  !.progress_pct = Callbacks[1][2]]
            /\ task' = [task EXCEPT !.callbacks = 1]
            /\ pc' = "in_pipeline"
            /\ UNCHANGED <<upload_session, audit_log, log>>
    /\ UNCHANGED beyondTask

(* the pipeline runs on to its next progress callback *)
ProgressCallback ==
    /\ pc = "in_pipeline"
    /\ task.callbacks < Len(Callbacks)
    /\ run' = [run EXCEPT !.current_step = Callbacks[task.callbacks + 1][1],
                          !.progress_pct = Callbacks[task.callbacks + 1][2]]
    /\ task' = [task EXCEPT !.callbacks = @ + 1]
    /\ UNCHANGED <<pc, upload_session, audit_log, log>>
    /\ UNCHANGED beyondTask

(* a step of the pipeline raises between its opening and closing callback *)
PipelineRaises ==
    /\ pc = "in_pipeline"
    /\ task.callbacks % 2 = 1
    /\ \E exc \in Exceptions : TaskFails(exc, Callbacks[task.callbacks][1])
    /\ UNCHANGED beyondTask

(* score_new_cycle returned: mark complete *)
MarkComplete ==
    /\ pc = "in_pipeline"
    /\ task.callbacks = Len(Callbacks)
    /\ run' = [run EXCEPT !.status = "complete", !.progress_pct = 100,
                          !.result_summary = [result |-> "scored"]]
    /\ upload_session' = [upload_session EXCEPT !.status = "complete"]
    /\ audit_log' = Append(audit_log, "pipeline_complete")
    /\ task' = [task EXCEPT !.returned = "result"]
    /\ log' = log \cup {"INFO pipeline run completed"}
    /\ pc' = "task_returned"
    /\ UNCHANGED beyondTask

-----------------------------------------------------------------------------
(* Initial states *)

Candidates == [p_low : PLowVals, pred : RankVals, y : TrueScoreVals]

-----------------------------------------------------------------------------
(* Model pickles in MODELS_DIR: saving, verified loading, the loaders *)

(* WORKING_PKLS, by configuration name in the order of the dict; the file   *)
(* of a configuration is results_<name>.pkl and its hash file has the same  *)
(* stem with the suffix .sha256                                             *)
WORKING_PKLS == <<"A_Structured", "D_Struct+Rubric">>

ConfigNames == Range(WORKING_PKLS)

(* objects a results pickle may hold *)
Objs == {"original", "tampered"}

(* pickle.dumps / pickle.loads: bytes that carry the object *)
PickleDumps(obj) == <<"pickle", obj>>

PickleLoads(data) == data[2]

(* hashlib.sha256(data).hexdigest(): one digest per content *)
Sha256(data) == <<"sha256", data>>

PickleBytes == {PickleDumps(obj) : obj \in Objs}

HashTexts == {Sha256(data) : data \in PickleBytes}

(* the content of a file that does not exist *)
Missing == <<>>

ModelDirs == [ConfigNames -> [pkl : PickleBytes \cup {Missing}, sha256 : HashTexts \cup {Missing}]]

(* load_verified_pickle skipping the comparison of the digests *)
LoadUncomparedPickle(files, name) ==
    IF files[name].sha256 = Missing \/ files[name].pkl = Missing
    THEN [outcome |-> "FileNotFoundError"]
    ELSE [outcome |-> "returned", value |-> PickleLoads(files[name].pkl)]

(* load_verified_pickle(model_path): the hash file is read before the       *)
(* pickle, and the bytes are deserialized only after the digests compared   *)
(* equal                                                                    *)
LoadVerifiedPickle(files, name) ==
    IF files[name].sha256 = Missing \/ files[name].pkl = Missing
    THEN [outcome |-> "FileNotFoundError"]
    ELSE IF Sha256(files[name].pkl) # files[name].sha256
         THEN [outcome |-> "ValueError"]
         ELSE [outcome |-> "returned", value |-> PickleLoads(files[name].pkl)]

(* one deserialization: who made it, of which file, of which bytes, and     *)
(* the text of the hash file at that moment                                 *)
Deserialization(by, files, name) ==
    [by |-> by, name |-> name, data |-> files[name].pkl, sha256 |-> files[name].sha256]

NothingLoaded ==
    [outcome |-> "returned", model_results |-> [name \in ConfigNames |-> None],
     deserialized |-> {}, log |-> {}]

(* one iteration of the loop of DataStore._load_models; a ValueError of    *)
(* load_verified_pickle is not caught and ends the loop                     *)
LoadModel(files, name, acc) ==
    IF acc.outcome # "returned" THEN acc
    ELSE IF files[name].pkl = Missing
    THEN [acc EXCEPT !.log = @ \cup {<<"WARNING", "Model not found", name>>}]
    ELSE LET verified == LoadVerifiedPickle(files, name)
         IN  CASE verified.outcome = "returned" ->
                    [acc EXCEPT !.model_results[name] = verified.value,
                                !.deserialized = @ \cup {Deserialization("_load_models", files, name)},
                                !.log = @ \cup {<<"INFO", "Loaded model (verified)", name>>}]
               [] verified.outcome = "FileNotFoundError" ->
                    [acc EXCEPT !.model_results[name] = PickleLoads(files[name].pkl),
                                !.deserialized = @ \cup {Deserialization("_load_models", files, name)},
                                !.log = @ \cup {<<"WARNING", "Model hash missing, loading without verification", name>>}]
               [] OTHER -> [acc EXCEPT !.outcome = verified.outcome]

RECURSIVE LoadModelsFrom(_, _, _)
LoadModelsFrom(files, i, acc) ==
    IF i > Len(WORKING_PKLS) THEN acc
    ELSE LET next == LoadModel(files, WORKING_PKLS[i], acc)
         IN  LoadModelsFrom(files, i + 1, next)

(* DataStore._load_models(), at API startup *)
LoadModels ==
    /\ LET loaded == LoadModelsFrom(model_files, 1, NothingLoaded)
       IN  /\ model_results' = loaded.model_results
           /\ deserialized' = loaded.deserialized
           /\ log' = loaded.log
           /\ pc' = IF loaded.outcome = "returned" THEN "api_started" ELSE "api_failed"
    /\ UNCHANGED <<model_files, load_result, saved>>
    /\ UNCHANGED beyondStore

(* score_new_cycle(model_pkl=...): the step that loads the model *)
ScoreNewCycleLoad ==
    /\ \E model_pkl \in ConfigNames :
          IF model_files[model_pkl].pkl = Missing
          THEN /\ pc' = "scoring_failed"
               /\ deserialized' = {}
          ELSE /\ pc' = "scoring_loaded"
               /\ deserialized' = {Deserialization("score_new_cycle", model_files, model_pkl)}
    /\ UNCHANGED <<model_files, model_results, log, load_result, saved>>
    /\ UNCHANGED beyondStore

(* save_model_results(results, config_name): the pickle is written, no     *)
(* hash file is                                                             *)
SaveModelResults ==
    /\ \E config_name \in ConfigNames, results \in Objs :
          /\ model_files' = [model_files EXCEPT ![config_name].pkl = PickleDumps(results)]
          /\ log' = {<<"INFO", "Saved model results to", config_name>>}
    /\ pc' = "saved"
    /\ deserialized' = {}
    /\ UNCHANGED <<model_results, load_result, saved>>
    /\ UNCHANGED beyondStore

(* save_verified_pickle(obj, model_path) *)
SaveVerifiedPickle ==
    /\ \E name \in ConfigNames, obj \in Objs :
          LET data == PickleDumps(obj)
          IN  /\ model_files' = [model_files EXCEPT ![name] = [pkl |-> data, sha256 |-> Sha256(data)]]
              /\ saved' = [saved EXCEPT ![name] = obj]
    /\ pc' = "saved"
    /\ deserialized' = {}
    /\ UNCHANGED <<model_results, log, load_result>>
    /\ UNCHANGED beyondStore

(* a direct call load_verified_pickle(model_path); pickle.loads is the last *)
(* statement, reached only when neither exception was raised                *)
LoadVerified ==
    /\ \E name \in ConfigNames :
          LET verified == LoadVerifiedPickle(model_files, name)
          IN  IF verified.outcome = "returned"
              THEN /\ load_result' = [name |-> name, outcome |-> "returned", value |-> verified.value]
                   /\ deserialized' = {Deserialization("load_verified_pickle", model_files, name)}
              ELSE /\ load_result' = [name |-> name, outcome |-> verified.outcome, value |-> None]
                   /\ deserialized' = {}
    /\ pc' = "verified_load"
    /\ UNCHANGED <<model_files, model_results, log, saved>>
    /\ UNCHANGED beyondStore

(* the hash file of a model is deleted *)
HashFileRemoved ==
    /\ \E name \in ConfigNames :
          /\ model_files[name].sha256 # Missing
          /\ model_files' = [model_files EXCEPT ![name].sha256 = Missing]
    /\ pc' = "hash_removed"
    /\ deserialized' = {}
    /\ UNCHANGED <<model_results, log, load_result, saved>>
    /\ UNCHANGED beyondStore

-----------------------------------------------------------------------------
(* Ingest endpoints (api/routers/ingest.py) and the task they enqueue.     *)
(* The rows written by log_action are no part of this state.               *)

MaxRuns == 2

(* the uploader of the session, another staff member, an admin *)
Users ==
    {[id |-> "uploader", role |-> "staff"],
     [id |-> "colleague", role |-> "staff"],
     [id |-> "head", role |-> "admin"]}

(* the session_id of a request: the id of the session, or one of no row *)
SessionIds == {"session", "absent"}

REQUIRED_FILE_TYPES == {"applicants", "experiences"}

Filenames == {"a.xlsx", "b.xlsx"}

(* file_manifest: detected_type by filename *)
Manifests == [Filenames -> REQUIRED_FILE_TYPES]

Free == [outcome |-> "free"]

NotValidated == [stored |-> FALSE]

(* the statuses of an active run, in approve_session's query and in the    *)
(* partial unique index uq_pipeline_runs_active                            *)
RunningOnly == {"running"}

ActiveStatuses == {"pending", "running"}

(* an ownership check that lets everybody through *)
EverybodyAllowed(sess, user) == FALSE

(* verify_session_ownership(session, user) raises HTTPException(403) *)
VerifySessionOwnershipRaises(sess, user) ==
    sess.uploaded_by # user.id /\ user.role # "admin"

(* the answer before the endpoint's own work: 404, 403, or 0 to go on *)
Refusal(user, session_id) ==
    IF session_id # "session" THEN 404
    ELSE IF VerifySessionOwnershipRaises(session, user) THEN 403
    ELSE 0

Respond(endpoint, user, session_id, code) ==
    response' = [endpoint |-> endpoint, user |-> user, session_id |-> session_id, code |-> code]

(* validate_session(db, upload_session); readable: every file of the       *)
(* manifest is on disk, can be read and has its required columns           *)
ValidateSession(sess, readable) ==
    LET detected_types == {sess.file_manifest[filename] : filename \in DOMAIN sess.file_manifest}
        errors == ~(REQUIRED_FILE_TYPES \subseteq detected_types) \/ ~readable
    IN  [sess EXCEPT !.validation_result = [stored |-> TRUE, errors |-> errors],
                     !.status = IF errors THEN "uploaded" ELSE "validated"]

(* GET /{session_id}/preview *)
PreviewSession ==
    /\ \E user \in Users, session_id \in SessionIds :
          LET refusal == Refusal(user, session_id)
          IN  IF refusal # 0
              THEN /\ Respond("preview", user, session_id, refusal)
                   /\ UNCHANGED session
              ELSE /\ Respond("preview", user, session_id, 200)
                   /\ IF session.status = "uploaded" /\ ~session.validation_result.stored
                      THEN /\ row_lock = Free
                           /\ \E readable \in BOOLEAN : session' = ValidateSession(session, readable)
                      ELSE UNCHANGED session
    /\ pc' = "responded"
    /\ UNCHANGED <<pipeline_runs, row_lock, log>>
    /\ UNCHANGED beyondIngest

(* GET /{session_id}/validation *)
GetValidation ==
    /\ \E user \in Users, session_id \in SessionIds :
          LET refusal == Refusal(user, session_id)
          IN  IF refusal # 0
              THEN /\ Respond("validation", user, session_id, refusal)
                   /\ UNCHANGED session
              ELSE /\ Respond("validation", user, session_id, 200)
                   /\ IF ~session.validation_result.stored
                      THEN /\ row_lock = Free
                           /\ \E readable \in BOOLEAN : session' = ValidateSession(session, readable)
                      ELSE UNCHANGED session
    /\ pc' = "responded"
    /\ UNCHANGED <<pipeline_runs, row_lock, log>>
    /\ UNCHANGED beyondIngest

(* PATCH /{session_id}/file-types with overrides = {filename: new_type} *)
OverrideFileTypes ==
    /\ \E user \in Users, session_id \in SessionIds :
          LET refusal == Refusal(user, session_id)
          IN  IF refusal # 0
              THEN /\ Respond("file-types", user, session_id, refusal)
                   /\ UNCHANGED session
              ELSE /\ Respond("file-types", user, session_id, 200)
                   /\ row_lock = Free
                   /\ \E filename \in Filenames, new_type \in REQUIRED_FILE_TYPES, readable \in BOOLEAN :
                         session' = ValidateSession(
                             [session EXCEPT !.file_manifest[filename] = new_type], readable)
    /\ pc' = "responded"
    /\ UNCHANGED <<pipeline_runs, row_lock, log>>
    /\ UNCHANGED beyondIngest

(* a run of the session with status pending or running exists *)
ActiveRunExists(runs) ==
    \E i \in 1..Len(runs) : runs[i].status \in ActiveStatuses

(* db.add(PipelineRun(status="pending")); session.status = "approved";     *)
(* db.commit(): the unique index uq_pipeline_runs_active refuses a second  *)
(* active run with an IntegrityError, which rolls the transaction back and *)
(* is answered with 500; the task is enqueued after the commit             *)
CreateRun(endpoint, user) ==
    IF ActiveRunExists(pipeline_runs)
    THEN /\ Respond(endpoint, user, "session", 500)
         /\ UNCHANGED <<session, pipeline_runs>>
    ELSE /\ Respond(endpoint, user, "session", 200)
         /\ pipeline_runs' = Append(pipeline_runs, [status |-> "pending"])
         /\ session' = [session EXCEPT !.status = "approved"]

(* the first statement of approve_session and retry_session: SELECT ...    *)
(* FOR UPDATE on the session row waits while another request holds the     *)
(* row; a session_id of no row locks nothing and is answered with 404      *)
LockSession(endpoint) ==
    /\ row_lock = Free
    /\ Len(pipeline_runs) < MaxRuns
    /\ \E user \in Users, session_id \in SessionIds :
          IF session_id # "session"
          THEN /\ Respond(endpoint, user, session_id, 404)
               /\ pc' = "responded"
               /\ UNCHANGED row_lock
          ELSE /\ row_lock' = [outcome |-> "held", endpoint |-> endpoint, user |-> user]
               /\ pc' = "locked"
               /\ UNCHANGED response
    /\ UNCHANGED <<session, pipeline_runs, log>>
    /\ UNCHANGED beyondIngest

(* POST /{session_id}/approve, up to the row lock *)
ApproveLock ==
    /\ LockSession("approve")

(* POST /{session_id}/approve, from the ownership check to the response;   *)
(* the end of the request releases the row                                 *)
ApproveSession ==
    /\ row_lock.outcome = "held"
    /\ row_lock.endpoint = "approve"
    /\ LET user == row_lock.user
       IN  IF VerifySessionOwnershipRaises(session, user)
           THEN /\ Respond("approve", user, "session", 403)
                /\ UNCHANGED <<session, pipeline_runs>>
           ELSE IF session.status \notin {"validated", "uploaded"}
           THEN /\ Respond("approve", user, "session", 409)
                /\ UNCHANGED <<session, pipeline_runs>>
           ELSE IF session.validation_result.stored /\ session.validation_result.errors
           THEN /\ Respond("approve", user, "session", 400)
                /\ UNCHANGED <<session, pipeline_runs>>
           ELSE IF ActiveRunExists(pipeline_runs)
           THEN /\ Respond("approve", user, "session", 409)
                /\ UNCHANGED <<session, pipeline_runs>>
           ELSE CreateRun("approve", user)
    /\ row_lock' = Free
    /\ pc' = "responded"
    /\ UNCHANGED log
    /\ UNCHANGED beyondIngest

(* POST /{session_id}/retry, up to the row lock *)
RetryLock ==
    /\ LockSession("retry")

(* POST /{session_id}/retry, from the ownership check to the response *)
RetrySession ==
    /\ row_lock.outcome = "held"
    /\ row_lock.endpoint = "retry"
    /\ LET user == row_lock.user
       IN  IF VerifySessionOwnershipRaises(session, user)
           THEN /\ Respond("retry", user, "session", 403)
                /\ UNCHANGED <<session, pipeline_runs>>
           ELSE IF session.status # "failed"
           THEN /\ Respond("retry", user, "session", 409)
                /\ UNCHANGED <<session, pipeline_runs>>
           ELSE CreateRun("retry", user)
    /\ row_lock' = Free
    /\ pc' = "responded"
    /\ UNCHANGED log
    /\ UNCHANGED beyondIngest

(* run_pipeline_task(run_id) of a pending run, to the commit that marks    *)
(* the run running and the session processing; the update of the session   *)
(* row waits for the row lock                                              *)
RunTaskStarts ==
    /\ row_lock = Free
    /\ \E i \in 1..Len(pipeline_runs) :
          /\ pipeline_runs[i].status = "pending"
          /\ pipeline_runs' = [pipeline_runs EXCEPT ![i].status = "running"]
    /\ session' = [session EXCEPT !.status = "processing"]
    /\ pc' = "task"
    /\ UNCHANGED <<row_lock, response, log>>
    /\ UNCHANGED beyondIngest

(* a task whose return leaves the run running *)
TaskNeverSettles == {"running"}

(* the statuses run_pipeline_task leaves on the run and its session: the   *)
(* "Mark complete" commit or the except block                              *)
TaskOutcomes == {"complete", "failed"}

(* run_pipeline_task(run_id) from there to its return: the pipeline ends   *)
(* and run and session are marked complete, or an exception is caught and  *)
(* both are marked failed                                                  *)
RunTaskEnds ==
    /\ row_lock = Free
    /\ \E i \in 1..Len(pipeline_runs), outcome \in TaskOutcomes :
          /\ pipeline_runs[i].status = "running"
          /\ pipeline_runs' = [pipeline_runs EXCEPT ![i].status = outcome]
          /\ session' = [session EXCEPT !.status = outcome]
    /\ pc' = "task"
    /\ UNCHANGED <<row_lock, response, log>>
    /\ UNCHANGED beyondIngest

-----------------------------------------------------------------------------
(* FeaturePipeline (pipeline/feature_engineering.py), for one numeric       *)
(* feature column; numbers of the fitted state and of the result are in     *)
(* halves, the median of an even count of integers being their midpoint     *)

MaxCells == 2

HoursVals == 0..3

(* a cell of the column Exp_Hour_Total: {} is NaN, {v} holds v *)
Cells == {{}} \cup {{v} : v \in HoursVals}

DataFrames == UNION {[1..n -> Cells] : n \in 1..MaxCells}

NotNa(frame) == {i \in 1..Len(frame) : frame[i] # {}}

ValueOf(cell) == CHOOSE v \in cell : TRUE

(* the k-th smallest of the values present *)
KthSmallest(frame, k) ==
    CHOOSE v \in HoursVals :
        /\ Cardinality({i \in NotNa(frame) : ValueOf(frame[i]) < v}) < k
        /\ Cardinality({i \in NotNa(frame) : ValueOf(frame[i]) <= v}) >= k

(* float(series.median()) if series.notna().any() else 0.0 *)
MedianOrZero(frame) ==
    LET n == Cardinality(NotNa(frame))
    IN  IF n = 0 THEN 0
        ELSE IF n % 2 = 1 THEN 2 * KthSmallest(frame, (n + 1) \div 2)
        ELSE KthSmallest(frame, n \div 2) + KthSmallest(frame, n \div 2 + 1)

(* FeaturePipeline(include_rubric=False) as __init__ leaves it *)
NewPipeline ==
    [include_rubric |-> FALSE, is_fitted_ |-> FALSE, numeric_medians_ |-> <<>>,
     rubric_medians_ |-> <<>>, feature_columns_ |-> <<>>]

(* _transform_impl(df): NaN is filled with the fitted median, with 0 when   *)
(* none is fitted                                                           *)
TransformImpl(p, frame) ==
    LET fill_val == IF p.numeric_medians_ = <<>> THEN 0 ELSE p.numeric_medians_[1]
    IN  [i \in 1..Len(frame) |-> IF frame[i] = {} THEN fill_val ELSE 2 * ValueOf(frame[i])]

(* fit(df): what it leaves on the pipeline and the calls of _transform_impl *)
FitOf(p, frame) ==
    LET learned == [p EXCEPT !.numeric_medians_ = <<MedianOrZero(frame)>>]
        feature_columns == <<"Exp_Hour_Total">>
    IN  IF Range(feature_columns) \cap DEMOGRAPHICS_FOR_FAIRNESS_ONLY # {}
        THEN [outcome |-> "ValueError", transform_impl_calls |-> 1, result |-> <<>>,
              pipe |-> [learned EXCEPT !.feature_columns_ = feature_columns]]
        ELSE [outcome |-> "returned", transform_impl_calls |-> 1, result |-> <<>>,
              pipe |-> [learned EXCEPT !.feature_columns_ = feature_columns,
                                       !.is_fitted_ = TRUE]]

(* transform(df) *)
TransformOf(p, frame) ==
    IF ~p.is_fitted_
    THEN [outcome |-> "RuntimeError", transform_impl_calls |-> 0, result |-> <<>>, pipe |-> p]
    ELSE [outcome |-> "returned", transform_impl_calls |-> 1,
          result |-> TransformImpl(p, frame), pipe |-> p]

(* fit_transform(df): self.fit(df), then return self.transform(df) *)
FitTransformOf(p, frame) ==
    LET fitted == FitOf(p, frame)
        transformed == TransformOf(fitted.pipe, frame)
    IN  IF fitted.outcome # "returned" THEN fitted
        ELSE [transformed EXCEPT
                 !.transform_impl_calls = fitted.transform_impl_calls + @]

Called(method, made) ==
    /\ pipe' = made.pipe
    /\ feature_call' = [method |-> method, outcome |-> made.outcome, result |-> made.result,
                        transform_impl_calls |-> made.transform_impl_calls]
    /\ pc' = "called"
    /\ UNCHANGED log
    /\ UNCHANGED beyondFeature

Fit ==
    /\ \E frame \in DataFrames : Called("fit", FitOf(pipe, frame))

Transform ==
    /\ \E frame \in DataFrames : Called("transform", TransformOf(pipe, frame))

FitTransform ==
    /\ \E frame \in DataFrames : Called("fit_transform", FitTransformOf(pipe, frame))

-----------------------------------------------------------------------------
(* Review decisions (api/services/review_service.py, api/routers/review.py) *)
(* in the active cycle                                                      *)

MaxSubmits == 3

AmcasIds == {1, 2}

Reviewers == {"reviewer_a", "reviewer_b"}

Decisions == {"confirm", "flag"}

Idle == [phase |-> "idle"]

(* the row of the applicant in review_decisions, as a set: empty or one row *)
ExistingRows(amcas_id) == {row \in review_decisions : row.amcas_id = amcas_id}

(* INSERT ... ON CONFLICT ON CONSTRAINT uq_review_decisions_applicant_cycle *)
(* DO UPDATE                                                                *)
Upsert(rows, new) ==
    {row \in rows : row.amcas_id # new.amcas_id} \cup {new}

SubmitsLogged ==
    Cardinality({i \in 1..Len(review_audit) : review_audit[i].action = "submit_decision"})

SubmitsInProgress ==
    Cardinality({reviewer \in Reviewers : review_requests[reviewer].phase # "idle"})

(* submit_decision -> save_decision, to the upsert: the query for an        *)
(* existing decision and, if one was found, log_action 'decision_changed'   *)
SaveDecisionReads ==
    /\ SubmitsLogged + SubmitsInProgress < MaxSubmits
    /\ \E reviewer \in Reviewers, amcas_id \in AmcasIds, decision \in Decisions :
          /\ review_requests[reviewer].phase = "idle"
          /\ LET existing == ExistingRows(amcas_id)
                 request == [phase |-> "read", amcas_id |-> amcas_id, decision |-> decision]
             IN  IF existing = {}
                 THEN /\ review_requests' = [review_requests EXCEPT ![reviewer] = request]
                      /\ UNCHANGED review_audit
                 ELSE \E row \in existing :
                      /\ review_requests' = [review_requests EXCEPT ![reviewer] = request]
                      /\ review_audit' = Append(review_audit,
                            [action |-> "decision_changed", user_id |-> reviewer,
                             resource_id |-> amcas_id, old_decision |-> row.decision,
                             old_reviewer_id |-> row.reviewer_id, new_decision |-> decision])
    /\ pc' = "save_decision"
    /\ UNCHANGED <<review_predictions, review_decisions, progress, log>>
    /\ UNCHANGED beyondReview

(* save_decision from the upsert on, and the rest of submit_decision:       *)
(* log_action 'submit_decision'                                             *)
SaveDecisionUpserts ==
    /\ \E reviewer \in Reviewers :
          LET request == review_requests[reviewer]
          IN  /\ request.phase = "read"
              /\ review_decisions' = Upsert(review_decisions,
                    [amcas_id |-> request.amcas_id, reviewer_id |-> reviewer,
                     decision |-> request.decision])
              /\ review_audit' = Append(review_audit,
                    [action |-> "submit_decision", user_id |-> reviewer,
                     resource_id |-> request.amcas_id, old_decision |-> None,
                     old_reviewer_id |-> None, new_decision |-> request.decision])
              /\ review_requests' = [review_requests EXCEPT ![reviewer] = Idle]
    /\ pc' = "submit_decision"
    /\ UNCHANGED <<review_predictions, progress, log>>
    /\ UNCHANGED beyondReview

(* get_review_queue: the applicants of tier 2 and 3 *)
ReviewQueue == {amcas_id \in AmcasIds : ~(review_predictions[amcas_id] < 2)}

CountDecisions(decision) ==
    Cardinality({row \in review_decisions : row.decision = decision})

(* GET /progress: get_progress(db, cycle_year, total_in_queue=len(queue)) *)
ReviewProgress ==
    /\ progress' = [total_in_queue |-> Cardinality(ReviewQueue),
                    reviewed_count |-> Cardinality(review_decisions),
                    confirmed_count |-> CountDecisions("confirm"),
                    flagged_count |-> CountDecisions("flag")]
    /\ pc' = "review_progress"
    /\ UNCHANGED <<review_predictions, review_decisions, review_audit, review_requests, log>>
    /\ UNCHANGED beyondReview

(* a pool holds at least one candidate: the estimators reject a feature    *)
(* matrix with no rows                                                     *)
Pools == UNION {[1..n -> Candidates] : n \in 1..MaxPool}

Unset == [outcome |-> "unset"]

GateIdle ==
    /\ holdout = <<>>
    /\ gate_result = Unset

BootIdle ==
    /\ all_metrics = <<>>
    /\ boot_skipped = 0
    /\ boot_result = Unset

AuditIdle ==
    /\ df = <<>>
    /\ audit_df = {}

TrainIdle ==
    /\ y_train_score = <<>>
    /\ rows_given = Unset
    /\ ranker_result = Unset

TaskIdle ==
    /\ run = Unset
    /\ upload_session = Unset
    /\ task = Unset
    /\ audit_log = <<>>

StoreIdle ==
    /\ model_files = <<>>
    /\ model_results = <<>>
    /\ deserialized = {}
    /\ load_result = Unset
    /\ saved = <<>>

IngestIdle ==
    /\ session = Unset
    /\ pipeline_runs = <<>>
    /\ row_lock = Unset
    /\ response = Unset

FeatureIdle ==
    /\ pipe = Unset
    /\ feature_call = Unset

ReviewIdle ==
    /\ review_predictions = <<>>
    /\ review_decisions = {}
    /\ review_audit = <<>>
    /\ review_requests = <<>>
    /\ progress = Unset

ScreenIdle ==
    /\ pool = <<>>
    /\ gate_threshold = 0
    /\ n_select = 0
    /\ predictions = Unset
    /\ metrics = Unset
    /\ standalone = Unset
    /\ call = Unset

ScreenInit ==
    /\ pc = "start"
    /\ pool \in Pools
    /\ gate_threshold \in ThresholdVals
    /\ n_select \in 0..MaxK
    /\ predictions = Unset
    /\ metrics = Unset
    /\ standalone = Unset
    /\ call = Unset
    /\ log = {}
    /\ GateIdle
    /\ BootIdle
    /\ AuditIdle
    /\ TrainIdle
    /\ TaskIdle
    /\ StoreIdle
    /\ IngestIdle
    /\ FeatureIdle
    /\ ReviewIdle

ScreenNext ==
    \/ TriageApplicants
    \/ StandaloneMetrics
    \/ Evaluate
    \/ RegressionOnly

SpecScreen == ScreenInit /\ [][ScreenNext]_vars

(* the holdout split is not empty *)
Holdouts == {h \in [HoldoutCells -> CountVals] : \E c \in HoldoutCells : h[c] > 0}

GateInit ==
    /\ pc = "gate_start"
    /\ holdout \in Holdouts
    /\ gate_result = Unset
    /\ log = {}
    /\ ScreenIdle
    /\ BootIdle
    /\ AuditIdle
    /\ TrainIdle
    /\ TaskIdle
    /\ StoreIdle
    /\ IngestIdle
    /\ FeatureIdle
    /\ ReviewIdle

GateNext ==
    \/ TrainSafetyGate

SpecGate == GateInit /\ [][GateNext]_vars

(* train_two_stage, phase 4: triage with n_select = PRODUCTION_K, evaluate,  *)
(* bootstrap.  One gate threshold is enough: it lets through the candidates *)
(* with the smaller p_low and stops the others                              *)
BootPools == UNION {[1..n -> Candidates] : n \in 1..MaxBootPool}

BootThresholds == {t \in ThresholdVals : \E p, q \in PLowVals : p < t /\ q >= t}

BootInit ==
    /\ pc = "start"
    /\ pool \in BootPools
    /\ gate_threshold \in BootThresholds
    /\ n_select = PRODUCTION_K
    /\ predictions = Unset
    /\ metrics = Unset
    /\ standalone = Unset
    /\ call = Unset
    /\ log = {}
    /\ GateIdle
    /\ BootIdle
    /\ AuditIdle
    /\ TrainIdle
    /\ TaskIdle
    /\ StoreIdle
    /\ IngestIdle
    /\ FeatureIdle
    /\ ReviewIdle

BootNext ==
    \/ TriageApplicants
    \/ Evaluate
    \/ BootstrapResample
    \/ BootstrapReturn

SpecBoot == BootInit /\ [][BootNext]_vars

(* df carries at most MaxColumns of the protected attributes *)
Frames ==
    {f \in [DEMOGRAPHICS_FOR_FAIRNESS_ONLY -> Columns] :
        Cardinality({attr \in DEMOGRAPHICS_FOR_FAIRNESS_ONLY : f[attr].present}) <= MaxColumns}

AuditInit ==
    /\ pc = "audit_start"
    /\ df \in Frames
    /\ audit_df = {}
    /\ log = {}
    /\ ScreenIdle
    /\ GateIdle
    /\ BootIdle
    /\ TrainIdle
    /\ TaskIdle
    /\ StoreIdle
    /\ IngestIdle
    /\ FeatureIdle
    /\ ReviewIdle

AuditNext ==
    \/ AuditGateFairness

SpecAudit == AuditInit /\ [][AuditNext]_vars

(* the training scores, listed in ascending order: the shuffled splits do   *)
(* not depend on the order of the rows                                      *)
TrainingScores ==
    {y \in UNION {[1..n -> TrueScoreVals] : n \in 1..MaxRows} :
        \A i, j \in 1..Len(y) : i < j => y[i] <= y[j]}

TrainInit ==
    /\ pc = "train_start"
    /\ y_train_score \in TrainingScores
    /\ rows_given = Unset
    /\ ranker_result = Unset
    /\ log = {}
    /\ ScreenIdle
    /\ GateIdle
    /\ BootIdle
    /\ AuditIdle
    /\ TaskIdle
    /\ StoreIdle
    /\ IngestIdle
    /\ FeatureIdle
    /\ ReviewIdle

TrainNext ==
    \/ SplitFitCalibrate
    \/ TrainSafetyGate
    \/ TrainQualityRanker

SpecTrain == TrainInit /\ [][TrainNext]_vars

(* a freshly created run (pending, no step yet) of an approved session *)
TaskInit ==
    /\ pc = "task_start"
    /\ \E run_exists, session_exists \in BOOLEAN :
          /\ run = [exists |-> run_exists, status |-> "pending", current_step |-> None,
                    progress_pct |-> 0, error_log |-> None, result_summary |-> None]
          /\ \E manifest \in SUBSET ManifestEntries :
                upload_session = [exists |-> session_exists, status |-> "approved",
                                  file_manifest |-> manifest]
    /\ task = [callbacks |-> 0, raised |-> None, executing |-> None, returned |-> None]
    /\ audit_log = <<>>
    /\ log = {}
    /\ ScreenIdle
    /\ GateIdle
    /\ BootIdle
    /\ AuditIdle
    /\ TrainIdle
    /\ StoreIdle
    /\ IngestIdle
    /\ FeatureIdle
    /\ ReviewIdle

TaskNext ==
    \/ MarkRunning
    \/ StartPipeline
    \/ ProgressCallback
    \/ PipelineRaises
    \/ MarkComplete

SpecTask == TaskInit /\ [][TaskNext]_vars

(* MODELS_DIR is in any state: each pickle and each hash file is missing or *)
(* holds some content, matching or not                                      *)
StoreInit ==
    /\ pc = "store_start"
    /\ model_files \in ModelDirs
    /\ model_results = [name \in ConfigNames |-> None]
    /\ deserialized = {}
    /\ load_result = [outcome |-> "unset"]
    /\ saved = [name \in ConfigNames |-> None]
    /\ log = {}
    /\ ScreenIdle
    /\ GateIdle
    /\ BootIdle
    /\ AuditIdle
    /\ TrainIdle
    /\ TaskIdle
    /\ IngestIdle
    /\ FeatureIdle
    /\ ReviewIdle

StoreNext ==
    \/ LoadModels
    \/ ScoreNewCycleLoad
    \/ SaveModelResults
    \/ SaveVerifiedPickle
    \/ LoadVerified
    \/ HashFileRemoved

SpecStore == StoreInit /\ [][StoreNext]_vars

(* the session as upload_files leaves it: status uploaded, the manifest of *)
(* the saved files, no validation result, no run                            *)
IngestInit ==
    /\ pc = "responded"
    /\ \E manifest \in Manifests :
          session = [status |-> "uploaded", uploaded_by |-> "uploader",
                     file_manifest |-> manifest, validation_result |-> NotValidated]
    /\ pipeline_runs = <<>>
    /\ row_lock = Free
    /\ response = [endpoint |-> "upload", user |-> [id |-> "uploader", role |-> "staff"],
                   session_id |-> "session", code |-> 200]
    /\ log = {}
    /\ ScreenIdle
    /\ GateIdle
    /\ BootIdle
    /\ AuditIdle
    /\ TrainIdle
    /\ TaskIdle
    /\ StoreIdle
    /\ FeatureIdle
    /\ ReviewIdle

IngestNext ==
    \/ PreviewSession
    \/ GetValidation
    \/ OverrideFileTypes
    \/ ApproveLock
    \/ ApproveSession
    \/ RetryLock
    \/ RetrySession
    \/ RunTaskStarts
    \/ RunTaskEnds

SpecIngest == IngestInit /\ [][IngestNext]_vars

(* the enqueued task is executed, its updates of the session row getting  *)
(* the row whenever requests keep locking it; a request that holds the    *)
(* row ends                                                                *)
IngestFairness ==
    /\ SF_vars(RunTaskStarts)
    /\ SF_vars(RunTaskEnds)
    /\ WF_vars(ApproveSession)
    /\ WF_vars(RetrySession)

SpecIngestLive == IngestInit /\ [][IngestNext]_vars /\ IngestFairness

FeatureInit ==
    /\ pc = "constructed"
    /\ pipe = NewPipeline
    /\ feature_call = [method |-> "__init__", outcome |-> "returned", result |-> <<>>,
                       transform_impl_calls |-> 0]
    /\ log = {}
    /\ ScreenIdle
    /\ GateIdle
    /\ BootIdle
    /\ AuditIdle
    /\ TrainIdle
    /\ TaskIdle
    /\ StoreIdle
    /\ IngestIdle
    /\ ReviewIdle

FeatureNext ==
    \/ Fit
    \/ Transform
    \/ FitTransform

SpecFeature == FeatureInit /\ [][FeatureNext]_vars

(* predictions are loaded, nobody has decided yet *)
ReviewInit ==
    /\ pc = "loaded"
    /\ review_predictions \in [AmcasIds -> 1..3]
    /\ review_decisions = {}
    /\ review_audit = <<>>
    /\ review_requests = [reviewer \in Reviewers |-> Idle]
    /\ progress = [total_in_queue |-> 0, reviewed_count |-> 0,
                   confirmed_count |-> 0, flagged_count |-> 0]
    /\ log = {}
    /\ ScreenIdle
    /\ GateIdle
    /\ BootIdle
    /\ AuditIdle
    /\ TrainIdle
    /\ TaskIdle
    /\ StoreIdle
    /\ IngestIdle
    /\ FeatureIdle

ReviewNext ==
    \/ SaveDecisionReads
    \/ SaveDecisionUpserts
    \/ ReviewProgress

SpecReview == ReviewInit /\ [][ReviewNext]_vars

-----------------------------------------------------------------------------
(* Properties of triage_applicants *)

Triaged == pc \in {"triaged", "evaluated"}

Evaluated == pc \in {"evaluated", "regression_done"}

PassedSet == {i \in 1..Len(pool) : pool[i].p_low < gate_threshold}

NPassedGate == Cardinality(PassedSet)

Selected == predictions.selected_indices

(* position of pool index i in the selection, 0 when it is not selected *)
PosOf(i) == IF i \in Range(Selected)
            THEN CHOOSE j \in 1..Len(Selected) : Selected[j] = i
            ELSE 0

(* C1: the selection returned by triage_applicants has no duplicates, has  *)
(* at most min(K, n_passed_gate) entries, and holds only indices whose     *)
(* p_low is below the gate threshold.                                      *)
C1_SelectionWithinGateAndK ==
    Triaged =>
        /\ NoDup(Selected)
        /\ Len(Selected) <= Min(n_select, NPassedGate)
        /\ \A j \in 1..Len(Selected) :
              /\ Selected[j] \in 1..Len(pool)
              /\ pool[Selected[j]].p_low < gate_threshold

C1_Witness ==
    /\ Triaged
    /\ n_select >= 1
    /\ NPassedGate > n_select
    /\ NPassedGate < Len(pool)
    /\ Len(Selected) = n_select

(* C2: when at least K candidates pass the gate, exactly K are selected,   *)
(* in non-increasing ranker-score order, and no passed candidate left out  *)
(* has a higher ranker score than a selected one.                          *)
C2_TopKByRankerScore ==
    (Triaged /\ NPassedGate >= n_select) =>
        /\ Len(Selected) = n_select
        /\ \A j \in 1..(Len(Selected) - 1) :
              pool[Selected[j]].pred >= pool[Selected[j + 1]].pred
        /\ \A i \in Range(Selected) : \A u \in PassedSet \ Range(Selected) :
              pool[i].pred >= pool[u].pred

C2_Witness ==
    /\ Triaged
    /\ n_select >= 2
    /\ NPassedGate > n_select
    /\ pool[Selected[1]].pred > pool[Selected[Len(Selected)]].pred
       \/ \E u \in PassedSet \ Range(Selected) : pool[Selected[1]].pred > pool[u].pred

(* C5: when nothing passes the gate the result is the empty selection with *)
(* gate_rejection_rate 1.0 and n_passed_gate 0; otherwise the rejection    *)
(* rate is 1 - n_passed_gate / pool size.                                  *)
C5_RejectionRate ==
    Triaged =>
        LET rate == predictions.gate_rejection_rate
        IN  /\ rate[2] > 0
            /\ predictions.n_passed_gate = NPassedGate
            /\ IF NPassedGate = 0
               THEN Selected = <<>> /\ RatEq(rate, Ratio(1, 1))
               ELSE rate[1] * Len(pool) + NPassedGate * rate[2] = Len(pool) * rate[2]

C5_Witness ==
    /\ Triaged
    /\ Len(pool) > 0
    /\ NPassedGate = 0
    /\ predictions.gate_rejection_rate = Ratio(1, 1)

(* C6: when fewer than K candidates pass the gate, all of them are         *)
(* selected and the returned result carries a quota-unmet flag.            *)
C6_QuotaUnmetFlagged ==
    (Triaged /\ NPassedGate < n_select) =>
        /\ Range(Selected) = PassedSet
        /\ "quota_unmet" \in DOMAIN predictions
        /\ predictions["quota_unmet"] = TRUE

(* C7: passed candidates with equal ranker scores are ordered, and cut at  *)
(* the K boundary, by pool order: the smaller pool index comes first.      *)
C7_TiesByPoolOrder ==
    Triaged =>
        \A a, b \in PassedSet :
            (a < b /\ pool[a].pred = pool[b].pred /\ b \in Range(Selected)) =>
                (a \in Range(Selected) /\ PosOf(a) < PosOf(b))

-----------------------------------------------------------------------------
(* Properties of the screening metrics *)

InUnitInterval(r) == ~IsNaN(r) /\ 0 <= r[1] /\ r[1] <= r[2] /\ r[2] > 0

IsZero(r) == ~IsNaN(r) /\ r[1] = 0

IsOne(r) == ~IsNaN(r) /\ r[1] = r[2] /\ r[2] > 0

AllSelectedHigh(sel) == \A j \in 1..Len(sel) : pool[sel[j]].y > LOW_SCORE_THRESHOLD

(* C8: for any selection, the empty one included, contamination_rate() and *)
(* evaluate_two_stage() produce a contamination rate in [0,1], which is 0  *)
(* when every selected true score exceeds the low-score threshold.         *)
C8_ContaminationInUnitInterval ==
    /\ standalone.outcome = "returned" =>
          /\ InUnitInterval(standalone.contamination_rate)
          /\ AllSelectedHigh(Selected) => IsZero(standalone.contamination_rate)
    /\ Evaluated =>
          /\ metrics.outcome = "returned"
          /\ InUnitInterval(metrics.contamination_rate)
          /\ AllSelectedHigh(Take(Selected, call.k)) => IsZero(metrics.contamination_rate)

RoundHalfEven(a, b) ==
    LET q == a \div b
        r == a % b
    IN  IF 2 * r < b THEN q
        ELSE IF 2 * r > b THEN q + 1
        ELSE IF q % 2 = 0 THEN q ELSE q + 1

(* C10 as stated: the K used when k is not given is                        *)
(* max(1, round(production_k * n_eval / production_pool_size)).            *)
C10_KIsRounded ==
    Evaluated =>
        call.k = Max(1, RoundHalfEven(call.production_k * Len(pool),
                                      call.production_pool_size))

(* C10 amended: the K used when k is not given is                          *)
(* max(1, floor(production_k * n_eval / production_pool_size)): the        *)
(* quotient is truncated, not rounded.                                     *)
C10_KIsTruncated ==
    Evaluated =>
        LET num == call.production_k * Len(pool)
            den == call.production_pool_size
            k == call.k
        IN  /\ k >= 1
            /\ \/ k = 1 /\ num < 2 * den
               \/ k * den <= num /\ num < (k + 1) * den
            /\ metrics.outcome = "returned" => metrics.k = k

C10_Witness ==
    /\ Evaluated
    /\ metrics.outcome = "returned"
    /\ 2 * ((call.production_k * Len(pool)) % call.production_pool_size)
          >= call.production_pool_size
    /\ call.production_k * Len(pool) >= call.production_pool_size

-----------------------------------------------------------------------------
(* Properties of the threshold sweep *)

Grid == GRID_FIRST..GRID_LAST

GateDone == pc = "gate_done"

(* counts on the holdout at threshold t, taken from the bag directly *)
TruePos(t) == BagCount({c \in HoldoutCells : c[2] = 1 /\ c[1] >= t})
FalseNeg(t) == BagCount({c \in HoldoutCells : c[2] = 1 /\ c[1] < t})
FalsePos(t) == BagCount({c \in HoldoutCells : c[2] = 0 /\ c[1] >= t})

GainAt(t) == TruePos(t) - 10 * FalseNeg(t) - FalsePos(t)

RecallOK(t) ==
    /\ TruePos(t) + FalseNeg(t) > 0
    /\ 100 * TruePos(t) >= GATE_RECALL_TARGET_PCT * (TruePos(t) + FalseNeg(t))

RecallIs(r, t) ==
    IF TruePos(t) + FalseNeg(t) = 0 THEN r[1] = 0
    ELSE r[1] * (TruePos(t) + FalseNeg(t)) = TruePos(t) * r[2]

(* C3: when some grid threshold reaches the recall target on the holdout,  *)
(* the returned threshold is a grid value that reaches it and whose        *)
(* screening gain is maximal among the grid values that reach it; the      *)
(* returned recall and gain are those measured at the returned threshold.  *)
C3_BestGainAmongRecallOK ==
    (GateDone /\ \E t \in Grid : RecallOK(t)) =>
        LET th == gate_result.threshold
        IN  /\ gate_result.outcome = "returned"
            /\ th \in Grid
            /\ RecallOK(th)
            /\ \A t \in Grid : RecallOK(t) => GainAt(th) >= GainAt(t)
            /\ RecallIs(gate_result.threshold_recall, th)
            /\ gate_result.threshold_gain = GainAt(th)

C3_Witness ==
    /\ GateDone
    /\ gate_result.threshold > GRID_FIRST
    /\ RecallOK(gate_result.threshold)
    /\ \E t \in Grid : RecallOK(t) /\ GainAt(t) < GainAt(gate_result.threshold)
    /\ \E t \in Grid : ~RecallOK(t)
    /\ FalseNeg(gate_result.threshold) > 0

(* C4: when no grid threshold reaches the recall target, training returns  *)
(* normally with the smallest grid threshold (0.01), logs a warning, and   *)
(* reports the recall and gain measured at 0.01.                           *)
C4_FallbackToSmallestThreshold ==
    (GateDone /\ \A t \in Grid : ~RecallOK(t)) =>
        /\ gate_result.outcome = "returned"
        /\ gate_result.threshold = GRID_FIRST
        /\ "WARNING no threshold achieved target recall" \in log
        /\ RecallIs(gate_result.threshold_recall, GRID_FIRST)
        /\ gate_result.threshold_gain = GainAt(GRID_FIRST)

C4_Witness ==
    /\ GateDone
    /\ \A t \in Grid : ~RecallOK(t)
    /\ TruePos(GRID_FIRST) > 0
    /\ FalseNeg(GRID_FIRST) > 0
    /\ FalsePos(GRID_FIRST) > 0
    /\ gate_result.threshold = GRID_FIRST

-----------------------------------------------------------------------------
(* Bootstrap intervals (SpecBoot) *)

Bootstrapped == pc = "bootstrapped"

BootKeys == {"k", "n_test", "contamination_rate", "n_low_in_selected",
             "precision_at_k", "mean_score_selected", "min_score_selected",
             "p10_score_selected", "coverage", "gate_rejection_rate",
             "n_passed_gate"}

(* the values of one metric over the evaluated resamples, as ratios *)
EvaluatedVals(key) ==
    [j \in 1..Len(all_metrics) |->
        IF key \in IntKeys THEN Ratio(all_metrics[j][key], 1) ELSE all_metrics[j][key]]

(* t is the mean of vals with two percentiles of vals around it: the mean    *)
(* times the count is the sum, low <= high, both within the range of vals   *)
IsTripleOver(t, vals) ==
    /\ RatEq(RatMul(t[1], Ratio(Len(vals), 1)), RatSum(vals))
    /\ RatLeq(t[2], t[3])
    /\ \E i \in 1..Len(vals) : RatLeq(vals[i], t[2])
    /\ \E i \in 1..Len(vals) : RatLeq(t[3], vals[i])
    /\ Len(vals) = 1 => RatEq(t[2], vals[1]) /\ RatEq(t[3], vals[1])

(* C11: bootstrap_evaluate never raises on a resample whose remapped         *)
(* selection is empty: such a resample adds nothing to the evaluated         *)
(* metrics.  When every resample is degenerate the result is the empty       *)
(* dict; otherwise every metric is reported as a (mean, low, high) triple    *)
(* over the evaluated (non-degenerate) resamples only.                       *)
C11_DegenerateResamplesSkipped ==
    /\ boot_result.outcome # "ValueError"
    /\ Len(all_metrics) + boot_skipped <= n_bootstrap
    /\ \A j \in 1..Len(all_metrics) :
          all_metrics[j].outcome = "returned" /\ all_metrics[j].k >= 1
    /\ Bootstrapped =>
          /\ boot_result.outcome = "returned"
          /\ Len(all_metrics) + boot_skipped = n_bootstrap
          /\ boot_skipped = n_bootstrap => DOMAIN boot_result.intervals = {}
          /\ boot_skipped < n_bootstrap =>
                /\ DOMAIN boot_result.intervals = BootKeys
                /\ \A key \in BootKeys :
                      IsTripleOver(boot_result.intervals[key], EvaluatedVals(key))

C11_Witness ==
    /\ Bootstrapped
    /\ boot_skipped >= 1
    /\ Len(all_metrics) >= 1
    /\ "contamination_rate" \in DOMAIN boot_result.intervals

C11_AllDegenerate ==
    /\ Bootstrapped
    /\ boot_skipped = n_bootstrap
    /\ DOMAIN boot_result.intervals = {}

(* C12: in train_two_stage the original indices bootstrap_evaluate treats    *)
(* as selected are exactly the first k_eval entries of selected_indices,     *)
(* the selection evaluate_two_stage scored.                                  *)
C12_BootstrapSelectsEvaluatedTopK ==
    (/\ pc \in {"resampling", "bootstrapped"}
     /\ n_select = PRODUCTION_K
     /\ call.production_k = PRODUCTION_K
     /\ call.production_pool_size = PRODUCTION_POOL_SIZE)
        => BootSelectedSet = Range(Take(predictions.selected_indices, call.k))

-----------------------------------------------------------------------------
(* Gate fairness audit (SpecAudit) *)

Audited == pc = "audited"

RowsOf(attr) == {row \in audit_df : row.attribute = attr}

(* C14: for every audited attribute the reported ratio is the smallest       *)
(* group rejection rate divided by the largest (ratio times largest equals   *)
(* smallest), lies in [0, 1], is 1 when all groups have the same rate, all   *)
(* zero included, and passes_80pct_rule holds exactly when the ratio is at   *)
(* least 0.8.                                                                *)
C14_DiRatioIsMinOverMax ==
    Audited =>
        \A attr \in DEMOGRAPHICS_FOR_FAIRNESS_ONLY :
            RowsOf(attr) # {} =>
                \E lo, hi \in RowsOf(attr) :
                    /\ \A row \in RowsOf(attr) :
                          /\ RatLeq(lo.rejection_rate, row.rejection_rate)
                          /\ RatLeq(row.rejection_rate, hi.rejection_rate)
                    /\ \A row \in RowsOf(attr) :
                          LET di == row.rejection_di_ratio
                          IN  /\ hi.rejection_rate[1] > 0 =>
                                    RatEq(RatMul(di, hi.rejection_rate), lo.rejection_rate)
                              /\ RatLeq(Ratio(0, 1), di) /\ RatLeq(di, Ratio(1, 1))
                              /\ RatEq(lo.rejection_rate, hi.rejection_rate) =>
                                    RatEq(di, Ratio(1, 1))
                              /\ row.passes_80pct_rule <=> 5 * di[1] >= 4 * di[2]

C14_Witness ==
    /\ Audited
    /\ \E row \in audit_df :
          /\ RatEq(row.rejection_di_ratio, Ratio(4, 5))
          /\ row.passes_80pct_rule
    /\ \E row \in audit_df :
          /\ RatEq(row.rejection_di_ratio, Ratio(3, 4))
          /\ ~row.passes_80pct_rule
    /\ \E attr \in DEMOGRAPHICS_FOR_FAIRNESS_ONLY :
          /\ RowsOf(attr) # {}
          /\ \A row \in RowsOf(attr) :
                row.rejection_rate[1] = 0 /\ RatEq(row.rejection_di_ratio, Ratio(1, 1))

(* the non-NaN rows of a column *)
RECURSIVE ValidIn(_, _)
ValidIn(attr, groups) ==
    IF groups = {} THEN 0
    ELSE LET g == CHOOSE x \in groups : TRUE
         IN  df[attr].by_group[g].n + ValidIn(attr, groups \ {g})

ValidSamples(attr) == IF df[attr].present THEN ValidIn(attr, GroupsOf(attr)) ELSE 0

(* C15: an attribute with fewer than 2 groups or fewer than 10 valid         *)
(* samples gets no rows, and every attribute that gets no rows has a log     *)
(* record that names it and states the reason.                               *)
C15_SkippedAttributesLogged ==
    Audited =>
        \A attr \in DEMOGRAPHICS_FOR_FAIRNESS_ONLY :
            /\ (~df[attr].present \/ Cardinality(GroupsOf(attr)) < 2
                    \/ ValidSamples(attr) < 10) => RowsOf(attr) = {}
            /\ RowsOf(attr) = {} => \E rec \in log : rec[3] = attr

(* C15, first half only: too few valid samples *)
C15_SmallSampleAudited ==
    /\ Audited
    /\ \E attr \in DEMOGRAPHICS_FOR_FAIRNESS_ONLY :
          /\ df[attr].present
          /\ Cardinality(GroupsOf(attr)) >= 2
          /\ ValidSamples(attr) < 10
          /\ RowsOf(attr) # {}

(* C15, second half only: skipped without a record *)
C15_SkippedSilently ==
    /\ Audited
    /\ \E attr \in DEMOGRAPHICS_FOR_FAIRNESS_ONLY :
          /\ df[attr].present
          /\ Cardinality(GroupsOf(attr)) < 2
          /\ RowsOf(attr) = {}
          /\ ~\E rec \in log : rec[3] = attr

-----------------------------------------------------------------------------
(* Gate and ranker training data (SpecTrain) *)

TrainingRows == 1..Len(y_train_score)

SplitsMade == rows_given.outcome = "returned"

RankerTrained == pc = "ranker_done" /\ ranker_result.outcome = "returned"

(* the holdout samples labelled c *)
HoldoutLabelled(c) == BagCount({cell \in HoldoutCells : cell[2] = c})

(* C16: a row is labelled low exactly when its score is at most              *)
(* LOW_SCORE_THRESHOLD (the labels the sweep sees are those of the holdout   *)
(* rows), the label is monotone in the score, and with the default cutoff    *)
(* the ranker trains on exactly the rows not labelled low, n_train being     *)
(* the number of rows scoring above the cutoff.                              *)
C16_LowLabelAndRankerComplement ==
    /\ SplitsMade =>
          /\ HoldoutLabelled(1) =
                Cardinality({i \in rows_given.threshold_sweep :
                                y_train_score[i] <= LOW_SCORE_THRESHOLD})
          /\ HoldoutLabelled(0) =
                Cardinality({i \in rows_given.threshold_sweep :
                                y_train_score[i] > LOW_SCORE_THRESHOLD})
          /\ \A i, j \in TrainingRows :
                (y_train_score[i] <= y_train_score[j] /\ YBinary(j) = 1) => YBinary(i) = 1
    /\ RankerTrained =>
          /\ ranker_result.rows = {i \in TrainingRows : YBinary(i) = 0}
          /\ ranker_result.rows \cap {i \in TrainingRows : YBinary(i) = 1} = {}
          /\ ranker_result.n_train =
                Cardinality({i \in TrainingRows : y_train_score[i] > LOW_SCORE_THRESHOLD})

C16_Witness ==
    /\ RankerTrained
    /\ \E i \in TrainingRows : y_train_score[i] = LOW_SCORE_THRESHOLD
    /\ \E i \in TrainingRows : y_train_score[i] = LOW_SCORE_THRESHOLD + 1
    /\ ranker_result.n_train < Len(y_train_score)
    /\ HoldoutLabelled(1) > 0

(* C17: the core, calibration and threshold-holdout rows are pairwise        *)
(* disjoint and together are all the training rows; the classifier is fit    *)
(* on the core rows, the calibrator on the calibration rows, and the sweep   *)
(* sees the holdout rows and nothing else.                                   *)
C17_SplitsPartitionTrainingRows ==
    SplitsMade =>
        /\ rows_given.gate_fit \cap rows_given.calibration = {}
        /\ rows_given.gate_fit \cap rows_given.threshold_sweep = {}
        /\ rows_given.calibration \cap rows_given.threshold_sweep = {}
        /\ rows_given.gate_fit \cup rows_given.calibration
              \cup rows_given.threshold_sweep = TrainingRows
        /\ HoldoutLabelled(0) + HoldoutLabelled(1) =
              Cardinality(rows_given.threshold_sweep)
        /\ \A c \in {0, 1} : HoldoutLabelled(c) = ClassCount(rows_given.threshold_sweep, c)

C17_Witness ==
    /\ pc = "gate_done"
    /\ SplitsMade
    /\ gate_result.outcome = "returned"
    /\ BothClasses(rows_given.gate_fit)
    /\ BothClasses(rows_given.calibration)
    /\ BothClasses(rows_given.threshold_sweep)

(* C18: train_safety_gate returns no threshold when one of the core,         *)
(* calibration and threshold-holdout splits holds no low-score row: it       *)
(* raises instead.                                                           *)
C18_ZeroPositiveSplitRaises ==
    (/\ SplitsMade
     /\ \/ ClassCount(rows_given.gate_fit, 1) = 0
        \/ ClassCount(rows_given.calibration, 1) = 0
        \/ ClassCount(rows_given.threshold_sweep, 1) = 0)
        => pc # "gate_done" /\ gate_result.outcome # "returned"

(* a holdout without low-score rows, while the core and the calibration     *)
(* rows have both classes, swept to a threshold                             *)
C18_HoldoutWithoutPositivesSwept ==
    /\ pc = "gate_done"
    /\ SplitsMade
    /\ gate_result.outcome = "returned"
    /\ BothClasses(rows_given.gate_fit)
    /\ BothClasses(rows_given.calibration)
    /\ ClassCount(rows_given.threshold_sweep, 1) = 0

-----------------------------------------------------------------------------
(* Pipeline task failures (SpecTask) *)

(* the task caught an exception after it had found the run and its session *)
TaskFailed ==
    /\ pc = "task_returned"
    /\ task.returned = "error"
    /\ run.exists /\ upload_session.exists

StepRaised == TaskFailed /\ task.executing # None

InErrorMap(exc) ==
    \/ exc.type = "KeyError" /\ exc.mentions_amcas_id
    \/ exc.type \in {"FileNotFoundError", "MemoryError"}

-----------------------------------------------------------------------------
(* Properties of model loading *)

(* C20: no model pickle is deserialized by the API startup loader or by the *)
(* score-only pipeline unless its .sha256 file exists and holds the digest  *)
(* of the bytes deserialized                                                *)
C20_OnlyVerifiedPicklesDeserialized ==
    \A d \in deserialized :
        /\ d.sha256 # Missing
        /\ d.sha256 = Sha256(d.data)

(* C21: load_verified_pickle after save_verified_pickle(obj) returns obj;   *)
(* with the hash file removed since the save it raises FileNotFoundError,   *)
(* with the pickle bytes changed since the save it raises ValueError, and   *)
(* in both error cases nothing is deserialized                              *)
C21_VerifiedLoadRoundTrip ==
    (pc = "verified_load" /\ saved[load_result.name] # None) =>
        LET name == load_result.name
            obj == saved[name]
            data == PickleDumps(obj)
            file == model_files[name]
        IN  /\ file.sha256 = Missing =>
                  /\ load_result.outcome = "FileNotFoundError"
                  /\ deserialized = {}
            /\ (file.sha256 # Missing /\ file.pkl # data) =>
                  /\ load_result.outcome = "ValueError"
                  /\ deserialized = {}
            /\ (file.sha256 # Missing /\ file.pkl = data) =>
                  /\ load_result.outcome = "returned"
                  /\ load_result.value = obj
                  /\ deserialized = {[by |-> "load_verified_pickle", name |-> name,
                                      data |-> data, sha256 |-> Sha256(data)]}

(* a load of a pickle whose bytes were replaced after the verified save *)
C21_Witness ==
    /\ pc = "verified_load"
    /\ saved[load_result.name] # None
    /\ model_files[load_result.name].sha256 = Sha256(PickleDumps(saved[load_result.name]))
    /\ model_files[load_result.name].pkl # PickleDumps(saved[load_result.name])
    /\ load_result.outcome = "ValueError"

-----------------------------------------------------------------------------
(* Properties of the ingest endpoints *)

(* C22: on every ingest endpoint taking a session_id, a caller who is       *)
(* neither the uploader of the session nor an admin is answered 403 and     *)
(* the session row and its pipeline runs stay as they were; the uploader    *)
(* and an admin are never answered 403                                      *)
C22_OutsiderRefusedOwnerAdmitted ==
    [][(pc' = "responded" /\ response'.session_id = "session") =>
          LET user == response'.user
              outsider == user.id # session.uploaded_by /\ user.role # "admin"
          IN  /\ outsider => (response'.code = 403 /\ UNCHANGED <<session, pipeline_runs>>)
              /\ ~outsider => response'.code # 403]_vars

(* another staff member asked to approve a validated session without run *)
C22_Witness ==
    /\ pc = "responded"
    /\ response.endpoint = "approve"
    /\ response.user.id = "colleague"
    /\ response.code = 403
    /\ session.status = "validated"
    /\ pipeline_runs = <<>>

(* the runs of the session with status pending or running *)
PendingOrRunning ==
    {i \in 1..Len(pipeline_runs) : pipeline_runs[i].status \in {"pending", "running"}}

(* C24: after any interleaving of approve, retry, file-type override and    *)
(* task executions, the session has at most one pipeline run whose status   *)
(* is pending or running                                                    *)
C24_AtMostOneActiveRun ==
    Cardinality(PendingOrRunning) <= 1

(* an approval refused with 409 because a run is active, the session        *)
(* status itself allowing the approval                                      *)
C24_Witness ==
    /\ pc = "responded"
    /\ response.endpoint = "approve"
    /\ response.code = 409
    /\ session.status \in {"validated", "uploaded"}
    /\ ~(session.validation_result.stored /\ session.validation_result.errors)
    /\ Cardinality(PendingOrRunning) = 1

(* C25: approve_session creates a run and moves the session to approved     *)
(* only when a validation result without errors is stored and the session   *)
(* status is uploaded or validated; every refused approval creates no run   *)
(* and leaves the session status as it was                                  *)
C25_ApprovalNeedsPassedValidation ==
    [][(pc' = "responded" /\ response'.endpoint = "approve") =>
          IF response'.code = 200
          THEN /\ session.validation_result.stored
               /\ ~session.validation_result.errors
               /\ session.status \in {"uploaded", "validated"}
               /\ pipeline_runs' = Append(pipeline_runs, [status |-> "pending"])
               /\ session'.status = "approved"
          ELSE /\ pipeline_runs' = pipeline_runs
               /\ session'.status = session.status]_vars

C29_ApprovedNeverBackToUploaded ==
    [][session.status \in {"approved", "processing", "complete", "failed"} =>
          session'.status \in {"approved", "processing", "complete", "failed"}]_vars


-----------------------------------------------------------------------------
(* Properties of one execution of run_pipeline_task *)

PIPELINE_STEPS == <<"ingestion", "cleaning", "features", "ml_scoring", "triage">>

(* the place of a step in the order of the pipeline, 0 for no step *)
StepPlace(step) ==
    IF step = None THEN 0
    ELSE CHOOSE i \in 1..Len(PIPELINE_STEPS) : PIPELINE_STEPS[i] = step

(* C27: during one execution of run_pipeline_task progress_pct stays in     *)
(* 0..100 and never decreases, the steps are reported in the order          *)
(* ingestion, cleaning, features, ml_scoring, triage, the run status moves  *)
(* only pending -> running -> complete or failed, and a complete run has    *)
(* progress_pct = 100 and a session with status complete                    *)
C27_ProgressMonotoneStatusForward ==
    /\ [](/\ run.progress_pct \in 0..100
          /\ run.status = "complete" =>
                (run.progress_pct = 100 /\ upload_session.status = "complete"))
    /\ [][/\ run'.progress_pct >= run.progress_pct
          /\ StepPlace(run'.current_step) >= StepPlace(run.current_step)
          /\ \/ run'.status = run.status
             \/ <<run.status, run'.status>> \in
                   {<<"pending", "running">>, <<"running", "complete">>,
                    <<"running", "failed">>}]_vars

(* the execution ran through all five steps and marked the run complete *)
C27_Witness ==
    /\ pc = "task_returned"
    /\ run.status = "complete"
    /\ run.current_step = "triage"
    /\ task.callbacks = Len(Callbacks)


-----------------------------------------------------------------------------
(* Properties of FeaturePipeline *)

(* the cached transform result of the pipeline, None when it holds none *)
FittedTransformResult ==
    IF "_fitted_transform_result" \in DOMAIN pipe THEN pipe._fitted_transform_result ELSE None

(* C23: one call of fit_transform runs _transform_impl exactly once, and    *)
(* after it returned the pipeline retains no cached transform result        *)
C23_FitTransformTransformsOnce ==
    (feature_call.method = "fit_transform" /\ feature_call.outcome = "returned") =>
        /\ feature_call.transform_impl_calls = 1
        /\ FittedTransformResult = None

-----------------------------------------------------------------------------
(* Properties of the review decisions *)

(* the reviewer's request stores its decision in this step *)
Stores(reviewer) ==
    /\ review_requests[reviewer].phase = "read"
    /\ review_requests'[reviewer].phase = "idle"

(* an audit row of the reviewer that records the replaced row *)
ChangeLogged(reviewer, row) ==
    \E i \in 1..Len(review_audit) :
        /\ review_audit[i].action = "decision_changed"
        /\ review_audit[i].user_id = reviewer
        /\ review_audit[i].resource_id = row.amcas_id
        /\ review_audit[i].old_decision = row.decision
        /\ review_audit[i].old_reviewer_id = row.reviewer_id

(* C26: whenever save_decision replaces a stored decision of the same       *)
(* applicant and cycle, an audit row 'decision_changed' with the old        *)
(* decision and the old reviewer has been written, also when two reviewers  *)
(* decide on one applicant concurrently; and there is at most one decision  *)
(* row per applicant and cycle                                              *)
C26_ReplacedDecisionsAudited ==
    [][/\ \A reviewer \in Reviewers :
              Stores(reviewer) =>
                  \A row \in ExistingRows(review_requests[reviewer].amcas_id) :
                      ChangeLogged(reviewer, row)
       /\ \A amcas_id \in AmcasIds :
              Cardinality({row \in review_decisions' : row.amcas_id = amcas_id}) <= 1]_vars

(* C30: after any sequence of submit_decision calls the review progress     *)
(* has reviewed_count = confirmed_count + flagged_count <= total_in_queue,  *)
(* total_in_queue counting the tier 2 and tier 3 applicants of the queue    *)
C30_ReviewedWithinQueue ==
    /\ progress.reviewed_count = progress.confirmed_count + progress.flagged_count
    /\ progress.reviewed_count <= progress.total_in_queue
    /\ progress.total_in_queue <= Cardinality({a \in AmcasIds : review_predictions[a] \in {2, 3}})

====
